---- MODULE Spec2Model ----
(***************************************************************************)
(* Verification model of jsxcord: page segmentation (message.ts, both      *)
(* historical variants) and the per-root dispatch queue (root.tsx).        *)
(*                                                                         *)
(* Conventions                                                             *)
(*  - a node is a record [kind, data, children, isHidden]; data is a       *)
(*    sequence of strings, children a sequence of nodes;                   *)
(*  - an optional JavaScript value is a sequence: <<>> is undefined,       *)
(*    <<v>> is the value v;                                                *)
(*  - a string is a sequence of one-character strings;                     *)
(*  - array indices of the source are 0-based, TLA+ sequences 1-based:     *)
(*    source index i is position i + 1.                                    *)
(***************************************************************************)
EXTENDS Integers, Sequences, FiniteSets, TLC

VARIABLES
    \* ---- dispatch (root.tsx setupRoot) ----
    msgVersion,      \* which message module the root is linked with: 1 = message.ts (stages), 2 = components-v2
    guild,           \* interaction.context === InteractionContextType.Guild
    children,        \* container.children
    attachments,     \* container.attachments (insertion ordered name/content pairs)
    messages,        \* messages: Message[] (handles)
    messageOptions,  \* messageOptions: InteractionReplyOptions[] (slots, <<>> = hole)
    deferred,        \* interaction.deferred
    replied,         \* interaction.replied
    queue,           \* promise-queue: tasks waiting
    running,         \* promise-queue: tasks whose promise is pending
    nextTask,        \* number of onChange calls so far
    log,             \* history: every outbound call, in issue order
    hist,            \* history: one record per started task
    sent,            \* history: per message handle, the payload last delivered
    treeChanged,     \* history: children changed since the last task start
    setup,           \* history: resolve() of setupRoot's promise and hydrateMessages, as tasks call them
    hydratedIds,     \* container.hydratedIds
    collectors,      \* history: every collect listener registered on a message
    \* ---- segmentation (createMessageOptions called twice on one container) ----
    segVersion,      \* message module under test
    segChildren,     \* container.children
    segAttachments,  \* container.attachments
    segAttachments0, \* history: container.attachments before the first call
    seg,             \* loop state of the running message.ts call
    segTrace,        \* history: (page, cursor) after every loop step of the running call
    segResults,      \* history: the page lists returned so far
    \* ---- component interactions (collect listeners) ----
    events,          \* history: the collect events delivered so far
    handlers,        \* one record per listener run that recognised its customId
    \* ---- appendChild of the instance classes ----
    apParent,        \* the parent instance: its kind and the children its data stores
    apLog,           \* history: every appendChild call on the parent
    \* ---- reconciler host config (renderer.ts) on one container ----
    rInst,           \* the instances created so far
    rContainer,      \* the container: children (instance ids) and the onChange calls made on it
    rPassEnds,       \* history: container.children at the end of every committed pass
    rLastUpdate,     \* history: the last prepareUpdate call and whether commitUpdate followed
    rOps,            \* number of host config calls so far
    \* ---- audio mixer (Mixer, MixerStream) ----
    mStreams,        \* Mixer.streams: allocation and the MixerStream's stream, pause flag, volume
    mHandles,        \* number of track handles drawn so far
    mTrace,          \* history: the allocations before and after every playTrack and stopTrack
    mListeners,      \* Mixer.endListeners: the handles an end listener is registered for
    mEnded,          \* the handles whose source has ended and whose 'end' listener has run
    mOut,            \* history: the last tick since the channels were last set, its input samples and its outcome
    \* ---- one track's natural end (playTrack's 'data' and 'end' listeners) ----
    mEnd,            \* the clock, the bytes counted, the timer and when the channel was freed
    \* ---- one tick of the mixer over its channels, step by step ----
    mTick,           \* the read steps of the channels and of the mixer within the tick
    \* ---- streamResource ----
    ffmpeg,          \* totalFfmpegInstances, the transcoders running and the calls made
    \* ---- useAwait ----
    awaits,          \* the promise cache, the sessions rendering and the operations started
    \* ---- container mutations of the host config ----
    cont,            \* container.children, the description and the mutations still to issue
    \* ---- useAwait with several call sites ----
    sites,           \* promiseCache, indices and what each call site last returned
    \* ---- withLoader ----
    loaders,         \* the shared promise and the instances rendering
    \* ---- DataStore.update ----
    dstore           \* the stored value, the updates in flight and the events emitted

dispatchVars == <<msgVersion, guild, children, attachments, messages, messageOptions,
                  deferred, replied, queue, running, nextTask, log, hist, sent, treeChanged,
                  setup, hydratedIds, collectors>>
segVars == <<segVersion, segChildren, segAttachments, segAttachments0, seg, segTrace, segResults>>
evVars == <<events, handlers>>
apVars == <<apParent, apLog>>
rVars == <<rInst, rContainer, rPassEnds, rLastUpdate, rOps>>
mVars == <<mStreams, mHandles, mTrace, mListeners, mEnded, mOut>>
late2Vars == <<cont, sites, loaders, dstore>>
lateVars == <<mEnd, mTick, ffmpeg, awaits, late2Vars>>
vars == <<dispatchVars, segVars, evVars, apVars, rVars, mVars, lateVars>>

\* ------------------------------------------------------------------------
\* Bounds
\* ------------------------------------------------------------------------
MaxCommits == 3
MaxSegChildren == 3

\* The value of a one-element set.  Recursive operators bind the state they
\* thread through it, so that the state is evaluated once per step.
Only(S) == CHOOSE r \in S : TRUE

\* ------------------------------------------------------------------------
\* Nodes
\* ------------------------------------------------------------------------
Node(kind, data, kids, hidden) ==
    [kind |-> kind, data |-> data, children |-> kids, isHidden |-> hidden]

Leaf(kind, data) == Node(kind, data, <<>>, FALSE)

Hide(n) == [n EXCEPT !.isHidden = TRUE]

UNRENDERED_MESSAGE_PARTS == {"Empty", "Ephemeral", "Whitelist"}

MESSAGE_PARTS ==
    << {"Markdown", "Text"},
       {"File", "Image"},
       {"Embed"},
       {"Poll"},
       {"ActionRow", "Button", "Select"} >>

MESSAGE_CONTAINERS == {"Ephemeral"}

\* ------------------------------------------------------------------------
\* Pages (InteractionReplyOptions)
\* ------------------------------------------------------------------------
NewPageV1 ==
    [content |-> << <<>> >>, components |-> <<>>, embeds |-> <<>>,
     files |-> << <<>> >>, flags |-> {}, poll |-> <<>>]

NewPageV2 ==
    [content |-> <<>>, components |-> <<>>, embeds |-> <<>>,
     files |-> <<>>, flags |-> {"IsComponentsV2"}, poll |-> <<>>]

MarkdownSpecial == {"*", "_", "#"}

RECURSIVE escapeMarkdown(_)
escapeMarkdown(s) ==
    IF s = <<>> THEN <<>>
    ELSE (IF Head(s) \in MarkdownSpecial THEN <<"\\", Head(s)>> ELSE <<Head(s)>>)
         \o escapeMarkdown(Tail(s))

RECURSIVE textInstancesToString(_)
textInstancesToString(texts) ==
    IF texts = <<>> THEN <<>>
    ELSE Head(texts).data \o textInstancesToString(Tail(texts))

AppendContent(page, s) ==
    [page EXCEPT !.content = << (IF page.content = <<>> THEN <<>> ELSE page.content[1]) \o s >>]

FilesOf(page) == IF page.files = <<>> THEN <<>> ELSE page.files[1]

AppendFile(page, f) == [page EXCEPT !.files = << Append(FilesOf(page), f) >>]

AppendComponent(page, c) == [page EXCEPT !.components = Append(page.components, c)]

\* message.ts of the stage variant
isMessageOptionsEmptyV1(options) ==
    /\ (options.content = <<>> \/ \A k \in 1..Len(options.content[1]) : options.content[1][k] = " ")
    /\ options.components = <<>>
    /\ options.embeds = <<>>
    /\ FilesOf(options) = <<>>

\* message.ts of the components-v2 variant
isMessageOptionsEmptyV2(options) == options.components = <<>>

isMessageOptionsEmpty(v, options) ==
    IF v = 1 THEN isMessageOptionsEmptyV1(options) ELSE isMessageOptionsEmptyV2(options)

\* ------------------------------------------------------------------------
\* Serialization of nodes into a page
\*   Text      data = the string
\*   Markdown  children = its Text nodes
\*   Image     data = <<name, src>>        (name "" = no name prop)
\*   File      data = <<name, content>>
\*   Embed     data = <<title>>
\*   Poll      data = <<question>>
\*   Button    data = <<customId, onClick>>, children = label texts
\*   Select    data = <<customId, onSelect>>
\*   ActionRow children = its buttons and selects
\*   Whitelist data = the allowed users, children = wrapped nodes
\*   Ephemeral children = wrapped nodes
\*   Container children = wrapped nodes
\*   Section   data = <<accessory>> or <<>>, children = its texts
\*   Accessory data = <<instance>> or <<>>
\* ------------------------------------------------------------------------

\* ButtonInstance.toComponentJSON / SelectInstance.toComponentJSON:
\* { ...this.data, label } -- the callback closure is part of the object.
toComponentJSON(n) == <<n.kind, n.data[1], textInstancesToString(n.children), n.data[2]>>

\* ActionRowInstance.addToOptionsGeneric: selects get a row of their own,
\* buttons are chunked five to a row.
RECURSIVE componentChunks(_, _)
componentChunks(components, currentChunk) ==
    IF components = <<>>
    THEN IF Len(currentChunk) > 0 THEN << currentChunk >> ELSE <<>>
    ELSE LET c == Head(components) IN
         IF c.kind = "Select"
         THEN (IF Len(currentChunk) > 0 THEN << currentChunk >> ELSE <<>>)
              \o << <<c>> >> \o componentChunks(Tail(components), <<>>)
         ELSE IF Len(currentChunk) + 1 = 5
              THEN << Append(currentChunk, c) >> \o componentChunks(Tail(components), <<>>)
              ELSE componentChunks(Tail(components), Append(currentChunk, c))

actionRows(chunks) ==
    [k \in 1..Len(chunks) |->
        <<"ActionRow", [j \in 1..Len(chunks[k]) |-> toComponentJSON(chunks[k][j])]>>]

\* addToOptions of every instance class (components v1).
\* Result: [page, threw].
RECURSIVE addToOptions(_, _)
RECURSIVE addChildrenToOptions(_, _)
addChildrenToOptions(kids, r0) ==
    Only({ IF kids = <<>> \/ r.threw THEN r
           ELSE addChildrenToOptions(Tail(kids), addToOptions(Head(kids), r.page))
           : r \in { r0 } })

addToOptions(n, page) ==
    CASE n.kind = "Text" ->
            [page |-> AppendContent(page, escapeMarkdown(n.data)), threw |-> FALSE]
      [] n.kind = "Markdown" ->
            [page |-> AppendContent(page, textInstancesToString(n.children)), threw |-> FALSE]
      [] n.kind \in {"Image", "File"} ->
            [page |-> AppendFile(page, <<n.data[1], n.data[2]>>), threw |-> FALSE]
      [] n.kind = "Embed" ->
            [page |-> [page EXCEPT !.embeds = Append(page.embeds, n.data)], threw |-> FALSE]
      [] n.kind = "Poll" ->
            [page |-> [page EXCEPT !.poll = << n.data >>], threw |-> FALSE]
      [] n.kind \in {"Button", "Select"} ->
            [page |-> AppendComponent(page, <<"ActionRow", << toComponentJSON(n) >> >>), threw |-> FALSE]
      [] n.kind = "ActionRow" ->
            [page |-> [page EXCEPT !.components = page.components \o actionRows(componentChunks(n.children, <<>>))],
             threw |-> FALSE]
      [] n.kind = "Empty" ->
            [page |-> page, threw |-> FALSE]
      [] n.kind = "Whitelist" ->
            addChildrenToOptions(n.children, [page |-> page, threw |-> FALSE])
      [] n.kind = "Ephemeral" ->
            LET r == addChildrenToOptions(n.children, [page |-> page, threw |-> FALSE]) IN
            IF r.threw THEN r
            ELSE [page |-> [r.page EXCEPT !.flags = r.page.flags \cup {"Ephemeral"}], threw |-> FALSE]
      [] OTHER ->   \* Answer, Field, Gallery, ... throw
            [page |-> page, threw |-> TRUE]

\* container.shouldAttach: compare with the cached attachment of that name,
\* cache the new one when it differs.  Result: [attach, attachments].
AttachmentIndex(atts, name) ==
    IF \E k \in 1..Len(atts) : atts[k][1] = name
    THEN CHOOSE k \in 1..Len(atts) : atts[k][1] = name
    ELSE 0

shouldAttach(atts, attachment) ==
    LET k == AttachmentIndex(atts, attachment[1]) IN
    IF k # 0 /\ atts[k][2] = attachment[2]
    THEN [attach |-> FALSE, attachments |-> atts]
    ELSE [attach |-> TRUE,
          attachments |-> IF k = 0 THEN Append(atts, attachment)
                          ELSE [atts EXCEPT ![k] = attachment]]

\* addToOptionsV2 of every instance class (components v2).
\* Result: [page, attachments, threw].
RECURSIVE addToOptionsV2(_, _, _)
RECURSIVE addChildrenToOptionsV2(_, _)
addChildrenToOptionsV2(kids, r0) ==
    Only({ IF kids = <<>> \/ r.threw THEN r
           ELSE addChildrenToOptionsV2(Tail(kids), addToOptionsV2(Head(kids), r.page, r.attachments))
           : r \in { r0 } })

addToOptionsV2(n, page, atts) ==
    CASE n.kind = "Text" ->
            [page |-> AppendComponent(page, <<"TextDisplay", escapeMarkdown(n.data)>>),
             attachments |-> atts, threw |-> FALSE]
      [] n.kind = "Markdown" ->
            [page |-> AppendComponent(page, <<"TextDisplay", textInstancesToString(n.children)>>),
             attachments |-> atts, threw |-> FALSE]
      [] n.kind = "Image" ->
            LET fileName == IF n.data[1] = "" THEN "image.png" ELSE n.data[1]
                attachment == <<fileName, n.data[2]>>
                sa == shouldAttach(atts, attachment)
                p1 == IF sa.attach THEN AppendFile(page, attachment) ELSE page
            IN [page |-> AppendComponent(p1, <<"MediaGallery", <<fileName>> >>),
                attachments |-> sa.attachments, threw |-> FALSE]
      [] n.kind \in {"Button", "Select"} ->
            [page |-> AppendComponent(page, <<"ActionRow", << toComponentJSON(n) >> >>),
             attachments |-> atts, threw |-> FALSE]
      [] n.kind = "ActionRow" ->
            [page |-> [page EXCEPT !.components = page.components \o actionRows(componentChunks(n.children, <<>>))],
             attachments |-> atts, threw |-> FALSE]
      [] n.kind = "Empty" ->
            [page |-> page, attachments |-> atts, threw |-> FALSE]
      [] n.kind = "Whitelist" ->
            addChildrenToOptionsV2(n.children, [page |-> page, attachments |-> atts, threw |-> FALSE])
      [] n.kind = "Ephemeral" ->
            LET r == addChildrenToOptionsV2(n.children, [page |-> page, attachments |-> atts, threw |-> FALSE]) IN
            IF r.threw THEN r
            ELSE [r EXCEPT !.page.flags = r.page.flags \cup {"Ephemeral"}]
      [] n.kind = "Accessory" ->
            [page |-> page, attachments |-> atts, threw |-> FALSE]
      [] n.kind = "Container" ->
            LET sub == [NewPageV2 EXCEPT !.files = << <<>> >>]
                r == addChildrenToOptionsV2(n.children, [page |-> sub, attachments |-> atts, threw |-> FALSE])
            IN IF r.threw THEN [page |-> page, attachments |-> r.attachments, threw |-> TRUE]
               ELSE [page |-> [page EXCEPT
                                 !.files = << FilesOf(page) \o FilesOf(r.page) >>,
                                 !.components = Append(page.components, <<"Container", r.page.components>>)],
                     attachments |-> r.attachments, threw |-> FALSE]
      [] n.kind = "Section" ->
            LET sub == [NewPageV2 EXCEPT !.files = << <<>> >>]
                texts == addChildrenToOptionsV2(n.children, [page |-> sub, attachments |-> atts, threw |-> FALSE])
            IN IF texts.threw \/ n.data = <<>> \/ n.data[1].data = <<>>
               THEN [page |-> page, attachments |-> atts, threw |-> TRUE]
               ELSE LET acc == addToOptionsV2(n.data[1].data[1], sub, atts)
                        first == acc.page.components[1]
                        accessory == IF first[1] = "MediaGallery" THEN <<"Thumbnail", first[2][1]>>
                                     ELSE IF first[1] = "ActionRow" THEN first[2][1]
                                     ELSE first
                    IN [page |-> [page EXCEPT
                                    !.files = << FilesOf(page) \o FilesOf(acc.page) >>,
                                    !.components = Append(page.components,
                                                          <<"Section", << accessory >>, texts.page.components>>)],
                        attachments |-> acc.attachments, threw |-> FALSE]
      [] OTHER ->   \* File, Poll, Embed, Field, Answer throw
            [page |-> page, attachments |-> atts, threw |-> TRUE]

\* ------------------------------------------------------------------------
\* createMessageOptions, stage variant (message.ts)
\* Loop state: pos = index of the child being placed, stage =
\* currentMessageStage, result = the pages so far (currentOptions is the
\* last one), threw = a serializer threw.
\* ------------------------------------------------------------------------
SegInit == [pos |-> 1, stage |-> 0, result |-> << NewPageV1 >>, threw |-> FALSE]

\* A createNewMessage that resets the cursor without starting a page.
createNewMessageSamePage(st) == [st EXCEPT !.stage = 0]

createNewMessage(st) == [st EXCEPT !.stage = 0, !.result = Append(st.result, NewPageV1)]

SegDone(ch, st) == st.threw \/ st.pos > Len(ch)

\* One pass through the body of the for loop: either the hidden-child
\* `continue`, or one iteration of the inner while loop.
SegStep(ch, st) ==
    LET child == ch[st.pos] IN
    IF child.isHidden THEN [st EXCEPT !.pos = st.pos + 1]
    ELSE
      LET isMessageContainer == child.kind \in MESSAGE_CONTAINERS
          st1 == IF isMessageContainer THEN createNewMessage(st) ELSE st
          possibleInstances == UNRENDERED_MESSAGE_PARTS \cup MESSAGE_PARTS[st1.stage + 1]
      IN IF child.kind \in possibleInstances
         THEN LET r == addToOptions(child, st1.result[Len(st1.result)]) IN
              IF r.threw THEN [st1 EXCEPT !.threw = TRUE]
              ELSE [st1 EXCEPT !.result[Len(st1.result)] = r.page, !.pos = st1.pos + 1]
         ELSE LET st2 == [st1 EXCEPT !.stage = st1.stage + 1] IN
              IF st2.stage >= Len(MESSAGE_PARTS) \/ isMessageContainer
              THEN createNewMessage(st2)
              ELSE st2

RECURSIVE SegRun(_, _)
SegRun(ch, st0) ==
    Only({ IF SegDone(ch, st) THEN st ELSE SegRun(ch, SegStep(ch, st)) : st \in { st0 } })

FilterNonEmptyV1(pages) == SelectSeq(pages, LAMBDA o : ~isMessageOptionsEmptyV1(o))

\* Every kind some stage or the always-appendable list accepts; the while
\* loop only ends for these.
PlaceableKinds ==
    UNRENDERED_MESSAGE_PARTS \cup UNION {MESSAGE_PARTS[k] : k \in 1..Len(MESSAGE_PARTS)}

createMessageOptionsV1(ch, atts) ==
    LET st == SegRun(ch, SegInit) IN
    [pages |-> IF st.threw THEN <<>> ELSE FilterNonEmptyV1(st.result),
     attachments |-> atts,
     threw |-> st.threw]

\* ------------------------------------------------------------------------
\* createMessageOptions, components-v2 variant: one page, every visible
\* child serialized into it, then the cached attachments are re-added when
\* the page uploads at least one file.
\* ------------------------------------------------------------------------
VisibleChildren(ch) == SelectSeq(ch, LAMBDA c : ~c.isHidden)

RECURSIVE AddCachedAttachments(_, _)
AddCachedAttachments(files0, atts) ==
    Only({ IF atts = <<>> THEN files
           ELSE LET a == Head(atts)
                    found == \E k \in 1..Len(files) : files[k][1] = a[1]
                IN AddCachedAttachments(IF found THEN files ELSE Append(files, a), Tail(atts))
           : files \in { files0 } })

createMessageOptionsV2(ch, atts) ==
    LET r == addChildrenToOptionsV2(VisibleChildren(ch),
                                    [page |-> NewPageV2, attachments |-> atts, threw |-> FALSE])
        page == IF Len(FilesOf(r.page)) > 0
                THEN [r.page EXCEPT !.files = << AddCachedAttachments(FilesOf(r.page), r.attachments) >>]
                ELSE r.page
    IN [pages |-> IF r.threw THEN <<>> ELSE << page >>,
        attachments |-> r.attachments,
        threw |-> r.threw]

createMessageOptions(v, ch, atts) ==
    IF v = 1 THEN createMessageOptionsV1(ch, atts) ELSE createMessageOptionsV2(ch, atts)

\* JSON.stringify as the dispatcher uses it: undefined for a missing slot,
\* otherwise the text of the payload.  Function-valued properties (the
\* callbacks carried by button and select components) are not serialized.
RECURSIVE StringifyComponent(_)
StringifyComponent(c) ==
    CASE c[1] \in {"ActionRow", "Container"} ->
            <<c[1], [j \in 1..Len(c[2]) |-> StringifyComponent(c[2][j])]>>
      [] c[1] = "Section" ->
            <<c[1], [j \in 1..Len(c[2]) |-> StringifyComponent(c[2][j])], c[3]>>
      [] c[1] \in {"Button", "Select"} -> SubSeq(c, 1, 3)
      [] OTHER -> c

JSONStringify(slot) ==
    IF slot = <<>> THEN <<>>
    ELSE << [slot[1] EXCEPT !.components =
                [k \in 1..Len(slot[1].components) |-> StringifyComponent(slot[1].components[k])]] >>

\* ------------------------------------------------------------------------
\* Hydration (hydrateMessages): binding collect listeners to sent messages.
\* H = [hydratedIds, collectors]; a collector is [message, customId, type]:
\* the listener registered on that message for components of that type,
\* whose closure holds that customId.
\* ------------------------------------------------------------------------
InteractiveTypes == {"Button", "Select"}

\* the leaf case of a hydration that registers a listener without looking
\* at hydratedIds
hydrateLeafAlways(c, message, H) ==
    IF c[2] = "" THEN H
    ELSE [hydratedIds |-> Append(H.hydratedIds, c[2]),
          collectors |-> Append(H.collectors, [message |-> message, customId |-> c[2], type |-> c[1]])]

\* if (!component.customId || container.hydratedIds.includes(customId)) return;
\* createMessageComponentCollector; collector.on('collect', ...);
\* container.hydratedIds.push(customId)
hydrateLeaf(c, message, H) ==
    IF c[2] = "" \/ \E k \in 1..Len(H.hydratedIds) : H.hydratedIds[k] = c[2] THEN H
    ELSE [hydratedIds |-> Append(H.hydratedIds, c[2]),
          collectors |-> Append(H.collectors, [message |-> message, customId |-> c[2], type |-> c[1]])]

RECURSIVE hydrateComponent(_, _, _)
RECURSIVE hydrateComponents(_, _, _)
hydrateComponents(cs, message, H0) ==
    Only({ IF cs = <<>> THEN H
           ELSE hydrateComponents(Tail(cs), message, hydrateComponent(Head(cs), message, H))
           : H \in { H0 } })

\* hydrateComponent of the components-v2 variant
hydrateComponent(c, message, H) ==
    CASE c[1] \in {"ActionRow", "Container"} -> hydrateComponents(c[2], message, H)
      [] c[1] = "Section" -> hydrateComponents(c[2], message, H)
      [] c[1] \in InteractiveTypes -> hydrateLeaf(c, message, H)
      [] OTHER -> H

\* the two inner loops of hydrateMessages of the stage variant: every
\* top-level component of a message is taken to be an action row
RECURSIVE hydrateRowV1(_, _, _)
hydrateRowV1(cs, message, H0) ==
    Only({ IF cs = <<>> THEN H
           ELSE hydrateRowV1(Tail(cs), message,
                             IF Head(cs)[1] \in InteractiveTypes THEN hydrateLeaf(Head(cs), message, H) ELSE H)
           : H \in { H0 } })

RECURSIVE hydrateRowsV1(_, _, _)
hydrateRowsV1(rows, message, H0) ==
    Only({ IF rows = <<>> THEN H
           ELSE hydrateRowsV1(Tail(rows), message, hydrateRowV1(Head(rows)[2], message, H))
           : H \in { H0 } })

\* hydrateMessages(messages, container); sentTo[m] is the payload message m
\* shows, whose components are message.components
RECURSIVE hydrateMessages(_, _, _, _)
hydrateMessages(v, msgs, sentTo, H0) ==
    Only({ IF msgs = <<>> THEN H
           ELSE hydrateMessages(v, Tail(msgs), sentTo,
                    IF v = 1 THEN hydrateRowsV1(sentTo[Head(msgs)].components, Head(msgs), H)
                    ELSE hydrateComponents(sentTo[Head(msgs)].components, Head(msgs), H))
           : H \in { H0 } })

\* ------------------------------------------------------------------------
\* Dispatch (root.tsx setupRoot; the loop of index.tsx bot is the same with
\* editReply in place of edit).
\* The operators below work on a record D of the mutable dispatch state:
\*   attachments, messages, messageOptions, deferred, replied, queue,
\*   running, log, hist, sent, treeChanged.
\* A running task is [id, newOptions, i, call, handle]: it is suspended in
\* iteration i at the await of the call logged at position `call`.
\* ------------------------------------------------------------------------

\* A queue that lets two tasks run at once.
maxPendingPromisesTwo == 1 + 1

\* new Queue(1): maxPendingPromises
maxPendingPromises == 1

Max(a, b) == IF a >= b THEN a ELSE b

\* messageOptions[i]
MsgOptAt(mo, i) == IF i + 1 <= Len(mo) THEN mo[i + 1] ELSE <<>>

\* messageOptions[i] = options
SetMsgOpt(mo, i, options) ==
    [k \in 1..Max(Len(mo), i + 1) |->
        IF k = i + 1 THEN << options >> ELSE IF k <= Len(mo) THEN mo[k] ELSE <<>>]

\* messages[i] !== undefined
HasMessage(msgs, i) == i + 1 <= Len(msgs)

\* messages[i] = message, for i = 0 or an index that holds a handle
SetMessage(msgs, i, h) ==
    IF HasMessage(msgs, i) THEN [msgs EXCEPT ![i + 1] = h] ELSE Append(msgs, h)

\* the `continue` test at the top of the loop body
Unchanged(D, options, i) ==
    JSONStringify(MsgOptAt(D.messageOptions, i)) = JSONStringify(<< options >>)

\* Which outbound call iteration i awaits, "none" when it awaits nothing.
CallKind(D, options, i) ==
    LET empty == isMessageOptionsEmpty(msgVersion, options) IN
    IF HasMessage(D.messages, i) /\ ~empty
    THEN IF guild THEN "edit" ELSE "editReply"
    ELSE IF i = 0
         THEN IF empty THEN "deferReply"
              ELSE IF D.deferred \/ D.replied
                   THEN IF HasMessage(D.messages, i) THEN "editReply" ELSE "followUp"
                   ELSE "reply"
         ELSE IF ~empty THEN "followUp" ELSE "none"

\* First iteration at or after i that awaits a call, -1 when the loop runs
\* to its end without awaiting.  Iterations that await nothing change no
\* state (a skipped page, or an empty page at an index above 0).
RECURSIVE NextCallIndex(_, _, _)
NextCallIndex(D, newOptions, i) ==
    IF i >= Len(newOptions) THEN -1
    ELSE IF ~Unchanged(D, newOptions[i + 1], i) /\ CallKind(D, newOptions[i + 1], i) # "none"
         THEN i
         ELSE NextCallIndex(D, newOptions, i + 1)

RemoveTask(run, id) == SelectSeq(run, LAMBDA t : t.id # id)

TaskPos(run, id) == CHOOSE k \in 1..Len(run) : run[k].id = id

RECURSIVE Dequeue(_, _)
RECURSIVE RunLoop(_, _, _, _)

\* what a call of resolve() or of hydrateMessages leaves in setup: the task,
\* how many of its outbound calls had not settled, and whether the promise
\* was resolved by then
SetupEvent(D, ev, id) ==
    [ev |-> ev, task |-> id,
     pending |-> Cardinality({a \in 1..Len(D.log) : D.log[a].task = id /\ D.log[a].status = "pending"}),
     resolved |-> \E k \in 1..Len(D.setup) : D.setup[k].ev = "resolve"]

\* hydrateMessages before resolve()
TaskResolvedHydrateFirst(D0, ch, id) ==
    Only({ Only({ Dequeue([D EXCEPT !.running = RemoveTask(D.running, id),
                                    !.hist[id].status = "done",
                                    !.setup = Append(Append(D.setup, SetupEvent(D, "hydrate", id)),
                                                     SetupEvent(D, "resolve", id)),
                                    !.hydratedIds = H.hydratedIds,
                                    !.collectors = H.collectors], ch)
                  : H \in { hydrateMessages(msgVersion, D.messages, D.sent,
                                            [hydratedIds |-> D.hydratedIds, collectors |-> D.collectors]) } })
           : D \in { D0 } })

\* The task's async function returned: resolve(), hydrateMessages, and the
\* queue's completion handler takes the next task.
TaskResolved(D0, ch, id) ==
    Only({ Only({ Dequeue([D EXCEPT !.running = RemoveTask(D.running, id),
                                    !.hist[id].status = "done",
                                    !.setup = Append(Append(D.setup, SetupEvent(D, "resolve", id)),
                                                     [SetupEvent(D, "hydrate", id) EXCEPT !.resolved = TRUE]),
                                    !.hydratedIds = H.hydratedIds,
                                    !.collectors = H.collectors], ch)
                  : H \in { hydrateMessages(msgVersion, D.messages, D.sent,
                                            [hydratedIds |-> D.hydratedIds, collectors |-> D.collectors]) } })
           : D \in { D0 } })

\* A rejection handler that frees the slot but does not take the next task.
TaskRejectedNoDequeue(D0, ch, id) ==
    Only({ [D EXCEPT !.running = RemoveTask(D.running, id),
                     !.hist[id].status = "rejected"] : D \in { D0 } })

\* The task's async function threw: the queue's rejection handler takes the
\* next task.
TaskRejected(D0, ch, id) ==
    Only({ Dequeue([D EXCEPT !.running = RemoveTask(D.running, id),
                             !.hist[id].status = "rejected"], ch) : D \in { D0 } })

\* Run the for loop of task id from iteration i up to its next await.
RunLoop(D0, ch, id, i) ==
    Only({
        LET t == D.running[TaskPos(D.running, id)]
            j == NextCallIndex(D, t.newOptions, i)
        IN IF j = -1 THEN TaskResolved(D, ch, id)
           ELSE LET options == t.newOptions[j + 1]
                    kind == CallKind(D, options, j)
                    entry == [task |-> id, kind |-> kind, i |-> j, options |-> options,
                              status |-> "pending", handle |-> 0]
                IN [D EXCEPT
                      !.messageOptions = IF ~isMessageOptionsEmpty(msgVersion, options)
                                         THEN SetMsgOpt(D.messageOptions, j, options)
                                         ELSE D.messageOptions,
                      !.log = Append(D.log, entry),
                      !.running[TaskPos(D.running, id)] =
                            [t EXCEPT !.i = j, !.call = Len(D.log) + 1]]
        : D \in { D0 } })

\* promise-queue _dequeue: start the oldest waiting task unless
\* maxPendingPromises tasks are pending.
Dequeue(D0, ch) ==
    Only({
        IF Len(D.running) >= maxPendingPromises \/ D.queue = <<>> THEN D
        ELSE Only({
            LET id == Head(D.queue)
                h  == [children |-> ch, changed |-> D.treeChanged, status |-> "running",
                       messages |-> D.messages, responded |-> D.deferred \/ D.replied,
                       attachments |-> D.attachments, recorded |-> D.messageOptions,
                       sent |-> D.sent]
                D1 == [D EXCEPT !.queue = Tail(D.queue),
                                !.attachments = cm.attachments,
                                !.hist = Append(D.hist, h),
                                !.treeChanged = FALSE]
            IN IF cm.threw THEN TaskRejected(D1, ch, id)
               ELSE RunLoop([D1 EXCEPT !.running = Append(D1.running,
                                   [id |-> id, newOptions |-> cm.pages, i |-> 0, call |-> 0, handle |-> 0])],
                            ch, id, 0)
            : cm \in { createMessageOptions(msgVersion, ch, D.attachments) } })
        : D \in { D0 } })

\* Preconditions discord.js checks before it sends anything: deferReply and
\* reply reject an interaction that is already acknowledged, followUp and
\* editReply one that is not.
MustFail(D, kind) ==
    \/ kind \in {"deferReply", "reply"} /\ (D.deferred \/ D.replied)
    \/ kind \in {"followUp", "editReply"} /\ ~(D.deferred \/ D.replied)

\* The awaited call of running task number k settles; the task continues to
\* its next await, to its end, or is rejected.
SettleResult(D, ch, k, ok) ==
    LET t  == D.running[k]
        e  == D.log[t.call]
        D0 == [D EXCEPT !.log[t.call].status = IF ok THEN "ok" ELSE "failed"]
    IN
    CASE e.kind = "deferReply" ->
            \* try { await interaction.deferReply() } catch { }
            RunLoop([D0 EXCEPT !.deferred = D.deferred \/ ok], ch, t.id, t.i + 1)
      [] e.kind = "reply" ->
            IF ~ok THEN TaskRejected(D0, ch, t.id)
            ELSE \* messages[i] = await response.fetch()
                 [D0 EXCEPT !.replied = TRUE,
                            !.sent = Append(D.sent, e.options),
                            !.log = Append([D0.log EXCEPT ![t.call].handle = Len(D.sent) + 1],
                                           [e EXCEPT !.kind = "fetch"]),
                            !.running[k] = [t EXCEPT !.call = Len(D.log) + 1,
                                                     !.handle = Len(D.sent) + 1]]
      [] e.kind = "fetch" ->
            IF ~ok THEN TaskRejected(D0, ch, t.id)
            ELSE RunLoop([D0 EXCEPT !.messages = SetMessage(D.messages, t.i, t.handle),
                                    !.log[t.call].handle = t.handle],
                         ch, t.id, t.i + 1)
      [] e.kind = "followUp" ->
            IF ~ok THEN TaskRejected(D0, ch, t.id)
            ELSE LET h == Len(D.sent) + 1 IN
                 RunLoop([D0 EXCEPT !.replied = TRUE,
                                    !.sent = Append(D.sent, e.options),
                                    !.log[t.call].handle = h,
                                    !.messages = IF t.i = 0
                                                 THEN SetMessage(D.messages, t.i, h)
                                                 ELSE Append(D.messages, h)],   \* messages.push
                         ch, t.id, t.i + 1)
      [] e.kind \in {"edit", "editReply"} ->
            IF ~ok THEN TaskRejected(D0, ch, t.id)
            ELSE RunLoop([D0 EXCEPT !.replied = D.replied \/ e.kind = "editReply",
                                    !.log[t.call].handle = D.messages[t.i + 1],
                                    !.sent[D.messages[t.i + 1]] = e.options],
                         ch, t.id, t.i + 1)

DState ==
    [attachments |-> attachments, messages |-> messages, messageOptions |-> messageOptions,
     deferred |-> deferred, replied |-> replied, queue |-> queue, running |-> running,
     log |-> log, hist |-> hist, sent |-> sent, treeChanged |-> treeChanged, setup |-> setup,
     hydratedIds |-> hydratedIds, collectors |-> collectors]

SetDState(D) ==
    /\ attachments' = D.attachments
    /\ messages' = D.messages
    /\ messageOptions' = D.messageOptions
    /\ deferred' = D.deferred
    /\ replied' = D.replied
    /\ queue' = D.queue
    /\ running' = D.running
    /\ log' = D.log
    /\ hist' = D.hist
    /\ sent' = D.sent
    /\ treeChanged' = D.treeChanged
    /\ setup' = D.setup
    /\ hydratedIds' = D.hydratedIds
    /\ collectors' = D.collectors

\* ------------------------------------------------------------------------
\* Trees the component may commit
\* ------------------------------------------------------------------------
TextA == Leaf("Text", <<"a">>)
TextB == Leaf("Text", <<"b">>)
ButtonF == Node("Button", <<"id1", "f">>, << TextA >>, FALSE)
ButtonG == Node("Button", <<"id1", "g">>, << TextA >>, FALSE)
ButtonH == Node("Button", <<"id2", "h">>, << TextB >>, FALSE)
ImageS == Leaf("Image", <<"", "s">>)
EmbedE == Leaf("Embed", <<"e">>)

CommitTrees ==
    { <<>>,
      << TextA >>,
      << ButtonF, TextA >>,
      << ButtonG, TextB >>,
      << ButtonF, ButtonH >>,
      << ImageS >>,
      << EmbedE >> }

\* ------------------------------------------------------------------------
\* Actions of the dispatch specification
\* ------------------------------------------------------------------------

\* A render pass commits: the reconciler has applied its mutations to
\* container.children and resetAfterCommit calls onChange, which adds one
\* task to the queue (promise-queue add runs _dequeue at once).
Commit(tree) ==
    /\ nextTask < MaxCommits
    /\ nextTask' = nextTask + 1
    /\ children' = tree
    /\ \E D \in { Dequeue([DState EXCEPT !.queue = Append(queue, nextTask + 1),
                                         !.treeChanged = treeChanged \/ tree # children],
                          tree) } : SetDState(D)
    /\ UNCHANGED <<msgVersion, guild, segVars, evVars, apVars, rVars, mVars, lateVars>>

\* The call a running task awaits settles.
Settle(k, ok) ==
    /\ k \in 1..Len(running)
    /\ ok => ~MustFail(DState, log[running[k].call].kind)
    /\ \E D \in { SettleResult(DState, children, k, ok) } : SetDState(D)
    /\ UNCHANGED <<msgVersion, guild, children, nextTask, segVars, evVars, apVars, rVars, mVars, lateVars>>

EvIdle ==
    /\ events = <<>>
    /\ handlers = <<>>

ApIdle ==
    /\ apParent = [kind |-> "Empty", stored |-> <<>>]
    /\ apLog = <<>>

\* the variables of the other specifications, at rest
RenderIdle ==
    /\ rInst = <<>>
    /\ rContainer = [children |-> <<>>, onChange |-> <<>>]
    /\ rPassEnds = <<>>
    /\ rLastUpdate = <<>>
    /\ rOps = 0

MixerIdle ==
    /\ mStreams = <<>>
    /\ mHandles = 0
    /\ mTrace = <<>>
    /\ mListeners = {}
    /\ mEnded = {}
    /\ mOut = <<>>

Late2Idle ==
    /\ cont = <<>>
    /\ sites = <<>>
    /\ loaders = <<>>
    /\ dstore = <<>>

LateIdle ==
    /\ mEnd = <<>>
    /\ mTick = <<>>
    /\ ffmpeg = <<>>
    /\ awaits = <<>>
    /\ Late2Idle

OthersIdle == EvIdle /\ ApIdle /\ RenderIdle /\ MixerIdle /\ LateIdle

SegIdle ==
    /\ segVersion = 1
    /\ segChildren = <<>>
    /\ segAttachments = <<>>
    /\ segAttachments0 = <<>>
    /\ seg = SegInit
    /\ segTrace = <<>>
    /\ segResults = <<>>

InitDispatch ==
    /\ msgVersion \in {1, 2}
    /\ guild \in BOOLEAN
    /\ children = <<>>
    /\ attachments = <<>>
    /\ messages = <<>>
    /\ messageOptions = <<>>
    /\ deferred = FALSE
    /\ replied \in BOOLEAN      \* setupRoot from useFollowUp runs on an interaction already replied to
    /\ queue = <<>>
    /\ running = <<>>
    /\ nextTask = 0
    /\ log = <<>>
    /\ hist = <<>>
    /\ sent = <<>>
    /\ treeChanged = FALSE
    /\ setup = <<>>
    /\ hydratedIds = <<>>
    /\ collectors = <<>>
    /\ SegIdle
    /\ OthersIdle

NextDispatch ==
    \/ \E tree \in CommitTrees : Commit(tree)
    \/ \E k \in 1..maxPendingPromises, ok \in BOOLEAN : Settle(k, ok)

SpecDispatch == InitDispatch /\ [][NextDispatch]_vars

\* ------------------------------------------------------------------------
\* Segmentation specification: createMessageOptions is called twice on one
\* container whose children do not change.  The stage variant is stepped
\* through its loop, the components-v2 variant is one step per call.
\* ------------------------------------------------------------------------
MaxCalls == 2

TextSpace == Leaf("Text", <<" ">>)
PollP == Leaf("Poll", <<"p">>)
EphemeralB == Node("Ephemeral", <<>>, << TextB >>, FALSE)
WhitelistF == Node("Whitelist", <<"u1">>, << ButtonF >>, FALSE)
EmptyN == Leaf("Empty", <<>>)

SegNodes ==
    { TextA, TextSpace, ImageS, EmbedE, PollP, ButtonF, EphemeralB, WhitelistF, EmptyN, Hide(TextB) }

RECURSIVE SeqsUpTo(_, _)
SeqsUpTo(S, n) ==
    IF n = 0 THEN { <<>> }
    ELSE LET shorter == SeqsUpTo(S, n - 1) IN
         shorter \cup { Append(q, x) : q \in shorter, x \in S }

DispatchIdle ==
    /\ msgVersion = 1
    /\ guild = FALSE
    /\ children = <<>>
    /\ attachments = <<>>
    /\ messages = <<>>
    /\ messageOptions = <<>>
    /\ deferred = FALSE
    /\ replied = FALSE
    /\ queue = <<>>
    /\ running = <<>>
    /\ nextTask = 0
    /\ log = <<>>
    /\ hist = <<>>
    /\ sent = <<>>
    /\ treeChanged = FALSE
    /\ setup = <<>>
    /\ hydratedIds = <<>>
    /\ collectors = <<>>

\* What the trace keeps of the loop state after a step: the page being
\* filled, the cursor, the kind of the child the step added (if any) and
\* the position of the child the loop is at next.
TraceEntry(st, placedKind) ==
    [page |-> Len(st.result), stage |-> st.stage, placed |-> placedKind, pos |-> st.pos]

InitSegment ==
    /\ segVersion \in {1, 2}
    /\ segChildren \in SeqsUpTo(SegNodes, MaxSegChildren)
    /\ segAttachments \in { <<>>, << <<"image.png", "t">> >> }
    /\ segAttachments0 = segAttachments
    /\ seg = SegInit
    /\ segTrace = << TraceEntry(SegInit, "") >>
    /\ segResults = <<>>
    /\ DispatchIdle
    /\ OthersIdle

\* One pass through the loop body of the stage variant.
SegLoopStep ==
    /\ segVersion = 1
    /\ Len(segResults) < MaxCalls
    /\ ~SegDone(segChildren, seg)
    /\ LET st == SegStep(segChildren, seg)
           child == segChildren[seg.pos]
           added == ~child.isHidden /\ ~st.threw /\ st.pos = seg.pos + 1
       IN /\ seg' = st
          /\ segTrace' = Append(segTrace, TraceEntry(st, IF added THEN child.kind ELSE ""))
    /\ UNCHANGED <<segVersion, segChildren, segAttachments, segAttachments0, segResults, dispatchVars, evVars, apVars, rVars, mVars, lateVars>>

\* The stage variant returns (or throws).
SegReturn ==
    /\ segVersion = 1
    /\ Len(segResults) < MaxCalls
    /\ SegDone(segChildren, seg)
    /\ segResults' = Append(segResults, [pages |-> IF seg.threw THEN <<>> ELSE FilterNonEmptyV1(seg.result),
                                         threw |-> seg.threw])
    /\ seg' = SegInit
    /\ segTrace' = IF Len(segResults) + 1 < MaxCalls THEN << TraceEntry(SegInit, "") >> ELSE segTrace
    /\ UNCHANGED <<segVersion, segChildren, segAttachments, segAttachments0, dispatchVars, evVars, apVars, rVars, mVars, lateVars>>

\* One whole call of the components-v2 variant.
SegCallV2 ==
    /\ segVersion = 2
    /\ Len(segResults) < MaxCalls
    /\ LET r == createMessageOptionsV2(segChildren, segAttachments) IN
       /\ segResults' = Append(segResults, [pages |-> r.pages, threw |-> r.threw])
       /\ segAttachments' = r.attachments
    /\ UNCHANGED <<segVersion, segChildren, segAttachments0, seg, segTrace, dispatchVars, evVars, apVars, rVars, mVars, lateVars>>

NextSegment == SegLoopStep \/ SegReturn \/ SegCallV2

SpecSegment == InitSegment /\ [][NextSegment]_vars

\* ------------------------------------------------------------------------
\* Properties
\* ------------------------------------------------------------------------
OutboundKinds == {"reply", "editReply", "edit", "followUp", "deferReply"}

\* positions in the log of the outbound calls of task id
CallsOf(id) == {a \in 1..Len(log) : log[a].task = id /\ log[a].kind \in OutboundKinds}

\* positions in the log of the outbound calls task id made for page index i
CallsAt(id, i) == {a \in CallsOf(id) : log[a].i = i}

\* the page list task id computed when it started
PagesOf(id) == createMessageOptions(msgVersion, hist[id].children, hist[id].attachments).pages

Finished(id) == id <= Len(hist) /\ hist[id].status # "running"

\* C1: the tasks of one root run one at a time and in commit order: calls
\* appear in the log in task order, and no call of a later task is issued
\* while a call of an earlier task is still pending.
C1_OneAtATimeInOrder ==
    /\ \A a, b \in 1..Len(log) : a < b => log[a].task <= log[b].task
    /\ \A a, b \in 1..Len(log) : (a < b /\ log[a].task < log[b].task) => log[a].status # "pending"
    /\ Cardinality({a \in 1..Len(log) : log[a].status = "pending"}) <= 1

\* Two commits arrived while task 1 was awaiting; task 2 has made a call
\* after task 1 and task 3 still waits.
C1_Witness ==
    /\ Len(queue) >= 1
    /\ Len(running) = 1
    /\ \E a, b \in 1..Len(log) : a < b /\ log[a].task < log[b].task /\ log[b].status = "pending"
    /\ \E id \in 2..Len(hist) : hist[id].messages = hist[1].messages /\ CallsOf(1) # {} /\ CallsOf(id) # {}

\* C2: idempotent dispatch: when a task has completed and the next task runs
\* with no change of the tree in between, the next task makes no outbound call.
C2_IdempotentDispatch ==
    \A id \in 1..Len(hist) :
        (id > 1 /\ hist[id - 1].status = "done" /\ ~hist[id].changed) => CallsOf(id) = {}

\* C3: a task that starts on a tree rendering no content, with no message
\* sent yet, makes exactly one call, a deferReply, and completes normally.
RendersNothing(id) ==
    \A k \in 1..Len(PagesOf(id)) : isMessageOptionsEmpty(msgVersion, PagesOf(id)[k])

C3_DeferOnEmpty ==
    \A id \in 1..Len(hist) :
        (Finished(id) /\ hist[id].messages = <<>> /\ RendersNothing(id)
            /\ ~createMessageOptions(msgVersion, hist[id].children, hist[id].attachments).threw)
        => /\ Cardinality(CallsOf(id)) = 1
           /\ \A a \in CallsOf(id) : log[a].kind = "deferReply"
           /\ hist[id].status = "done"

SameValue(p, q) == JSONStringify(<< p >>) = JSONStringify(<< q >>)

\* task id has dealt with page index i: it ran its loop to the end, or it
\* made a call for index i or a later one
Reached(id, i) ==
    \/ hist[id].status = "done"
    \/ \E a \in 1..Len(log) : log[a].task = id /\ log[a].i >= i

KindsAt(id, i, kinds) == {a \in CallsAt(id, i) : log[a].kind \in kinds}

\* C4: page 0 non-empty and no message handle yet: exactly one reply (and
\* no followUp) when the interaction is neither replied nor deferred,
\* exactly one followUp (and no reply) when it is; the message the call
\* returns becomes handle 0.
C4_InitialReply ==
    \A id \in 1..Len(hist) :
        (/\ Finished(id)
         /\ hist[id].messages = <<>>
         /\ Len(PagesOf(id)) >= 1
         /\ ~isMessageOptionsEmpty(msgVersion, PagesOf(id)[1]))
        => LET first == IF hist[id].responded THEN "followUp" ELSE "reply"
               other == IF hist[id].responded THEN "reply" ELSE "followUp"
               store == IF hist[id].responded THEN "followUp" ELSE "fetch"
           IN /\ Cardinality(KindsAt(id, 0, {first})) = 1
              /\ KindsAt(id, 0, {other}) = {}
              /\ \A a \in 1..Len(log) :
                    (log[a].task = id /\ log[a].i = 0 /\ log[a].kind = store /\ log[a].status = "ok")
                    => (Len(messages) >= 1 /\ messages[1] = log[a].handle)

\* C5: for a page index i > 0 of a task: a handle at i, a non-empty page
\* that differs from the payload last delivered to that message: exactly
\* one edit of that handle and no new message; no handle at i and a
\* non-empty page: exactly one followUp whose message is appended to messages.
C5_EditOrFollowUp ==
    \A id \in 1..Len(hist) : \A i \in 1..(Len(PagesOf(id)) - 1) :
        (Finished(id) /\ Reached(id, i) /\ ~isMessageOptionsEmpty(msgVersion, PagesOf(id)[i + 1]))
        => IF HasMessage(hist[id].messages, i)
           THEN ~SameValue(hist[id].sent[hist[id].messages[i + 1]], PagesOf(id)[i + 1])
                => /\ Cardinality(KindsAt(id, i, {"edit", "editReply"})) = 1
                   /\ KindsAt(id, i, {"followUp", "reply"}) = {}
                   /\ \A a \in KindsAt(id, i, {"edit", "editReply"}) :
                         log[a].status = "ok" => log[a].handle = hist[id].messages[i + 1]
           ELSE /\ Cardinality(KindsAt(id, i, {"followUp"})) = 1
                /\ KindsAt(id, i, {"edit", "editReply", "reply"}) = {}
                /\ \A a \in KindsAt(id, i, {"followUp"}) :
                      log[a].status = "ok" => \E k \in 1..Len(messages) : messages[k] = log[a].handle

\* the payload of the last call for page index i that delivered a message
SendKinds == {"reply", "followUp", "edit", "editReply"}

OkSends(i) == {a \in 1..Len(log) : log[a].i = i /\ log[a].kind \in SendKinds /\ log[a].status = "ok"}

LastOkSend(i) == CHOOSE a \in OkSends(i) : \A b \in OkSends(i) : b <= a

\* C6: messageOptions[i] only ever holds a payload whose call succeeded:
\* with no call in flight it is the payload of the last successful call for
\* index i, and after a failed call for index i the next task on the same
\* tree calls again for index i.
C6_RecordedOnlyOnSuccess ==
    /\ running = <<>> =>
          \A i \in 0..(Len(messageOptions) - 1) :
              MsgOptAt(messageOptions, i) # <<>> =>
                  (OkSends(i) # {} /\ log[LastOkSend(i)].options = MsgOptAt(messageOptions, i)[1])
    /\ \A a \in 1..Len(log) :
          LET id == log[a].task + 1 IN
          (/\ log[a].kind \in SendKinds /\ log[a].status = "failed"
           /\ Finished(id) /\ ~hist[id].changed)
          => CallsAt(id, log[a].i) # {}

\* what the committed tree renders, attachments included
Rendered == createMessageOptions(msgVersion, children, <<>>).pages

\* C8: later state wins: when every queued task has settled and no call has
\* failed, each message of the root shows the page of the last committed
\* tree at its index.
C8_LaterStateWins ==
    (/\ nextTask > 0 /\ queue = <<>> /\ running = <<>>
     /\ \A a \in 1..Len(log) : log[a].status = "ok"
     /\ \A id \in 1..Len(hist) : hist[id].status = "done")
    => \A i \in 0..(Len(messages) - 1) :
          /\ i < Len(Rendered)
          /\ SameValue(sent[messages[i + 1]], Rendered[i + 1])

\* Every outbound call settles: the client resolves or rejects its promise.
SpecDispatchFair ==
    SpecDispatch /\ WF_vars(\E k \in 1..maxPendingPromises, ok \in BOOLEAN : Settle(k, ok))

\* C7: a rejected task does not stall the queue: every task that was
\* enqueued is eventually started and settled (again and again all tasks
\* enqueued so far have settled), and tasks settle in the order they were
\* enqueued.
C7_QueueNeverStalls ==
    /\ []<>(\A id \in 1..nextTask : Finished(id))
    /\ [](\A a, b \in 1..Len(hist) : (a < b /\ Finished(b)) => Finished(a))

\* A task was rejected by a failed call while the next one waited in the
\* queue, and that next task has run to completion with a call of its own.
C7_Witness ==
    \E id \in 1..(Len(hist) - 1) :
        /\ hist[id].status = "rejected"
        /\ \E a \in CallsOf(id) : log[a].status = "failed"
        /\ hist[id + 1].status = "done"
        /\ hist[id + 1].changed
        /\ \E a \in CallsOf(id + 1) : log[a].status = "ok"

PageListsEqual(p, q) ==
    /\ Len(p) = Len(q)
    /\ \A k \in 1..Len(p) : SameValue(p[k], q[k])

\* C9: createMessageOptions is a pure function of the tree: it leaves the
\* container as it found it, and a second call on the unchanged container
\* returns a value-equal page list.
C9_Pure ==
    /\ Len(segResults) >= 1 => segAttachments = segAttachments0
    /\ Len(segResults) = MaxCalls =>
          /\ segResults[1].threw = segResults[2].threw
          /\ PageListsEqual(segResults[1].pages, segResults[2].pages)

\* the stage that accepts a kind
StageIndex(kind) == CHOOSE k \in 1..Len(MESSAGE_PARTS) : kind \in MESSAGE_PARTS[k]

StageKinds == UNION {MESSAGE_PARTS[k] : k \in 1..Len(MESSAGE_PARTS)}

\* C10: stage monotonicity: from one loop step to the next the cursor only
\* grows, or is 0 on a page started by that step, and a new page always
\* starts at 0; of two stage-matched nodes placed on the same page the later
\* one is not of a lower stage.
C10_StageMonotone ==
    /\ \A k \in 1..(Len(segTrace) - 1) :
          /\ \/ segTrace[k + 1].page = segTrace[k].page /\ segTrace[k + 1].stage >= segTrace[k].stage
             \/ segTrace[k + 1].page > segTrace[k].page /\ segTrace[k + 1].stage = 0
    /\ \A a, b \in 1..Len(segTrace) :
          (/\ a < b
           /\ segTrace[a].placed \in StageKinds
           /\ segTrace[b].placed \in StageKinds
           /\ segTrace[a].page = segTrace[b].page)
          => StageIndex(segTrace[a].placed) <= StageIndex(segTrace[b].placed)

\* A finished call placed two nodes of different stages on one page and
\* started a page because the cursor ran past the last stage.
C10_Witness ==
    /\ Len(segResults) = MaxCalls
    /\ \E a, b \in 1..Len(segTrace) :
          /\ a < b
          /\ segTrace[a].placed \in StageKinds
          /\ segTrace[b].placed \in StageKinds
          /\ StageIndex(segTrace[a].placed) < StageIndex(segTrace[b].placed)
          /\ segTrace[a].page = segTrace[b].page
    /\ \E k \in 1..(Len(segTrace) - 1) :
          /\ segTrace[k + 1].page > segTrace[k].page
          /\ segTrace[k].stage = Len(MESSAGE_PARTS) - 1
          /\ segTrace[k + 1].placed = ""

\* kinds whose addToOptions writes nothing to the page
SilentKinds == {"", "Empty"}

\* C11: a visible top-level Ephemeral node is its own message: the step that
\* places it starts a new page, and no other top-level node, before or
\* after it, contributes to the page that carries it.
C11_EphemeralOwnPage ==
    \A a \in 2..Len(segTrace) :
        segTrace[a].placed \in MESSAGE_CONTAINERS =>
            /\ segTrace[a].page = segTrace[a - 1].page + 1
            /\ \A b \in 1..Len(segTrace) :
                  (b # a /\ segTrace[b].placed \notin SilentKinds)
                  => segTrace[b].page # segTrace[a].page

\* C13: at most one collect listener per component identifier of a root:
\* hydratedIds holds no customId twice, and no two listeners were ever
\* registered for the same customId.
C13_OneCollectorPerId ==
    /\ \A a, b \in 1..Len(hydratedIds) : a # b => hydratedIds[a] # hydratedIds[b]
    /\ \A a, b \in 1..Len(collectors) : a # b => collectors[a].customId # collectors[b].customId
    /\ \A a \in 1..Len(collectors) : \E k \in 1..Len(hydratedIds) : hydratedIds[k] = collectors[a].customId

\* Two tasks that sent or edited a message with the same button have run
\* hydrateMessages, and a second button was bound later.
C13_Witness ==
    /\ Len(hydratedIds) = 2
    /\ Len(collectors) = 2
    /\ \E a, b \in 1..Len(hist) :
          /\ a < b
          /\ hist[a].status = "done" /\ hist[b].status = "done"
          /\ \E x \in CallsOf(a) : log[x].status = "ok" /\ log[x].kind \in SendKinds
          /\ \E x \in CallsOf(b) : log[x].status = "ok" /\ log[x].kind \in {"edit", "editReply"}

\* ------------------------------------------------------------------------
\* Component interactions: the collect listeners hydrateMessages registers.
\* A handler is one run of a listener whose customId matched the event:
\*   steps  what the listener did, in order
\*   cb     the user's callback: "none", "running", "done"
\*   ack    interaction.deferUpdate(): "none", "pending", "ok",
\*          "swallowed" (rejected inside try/catch), "unhandled" (rejected
\*          with nobody awaiting it)
\* ------------------------------------------------------------------------
MaxHydCommits == 2
MaxEvents == 2

Users == {"u1", "u2"}

Range(q) == {q[k] : k \in 1..Len(q)}

\* the users list findComponentWithId hands down below a child that does
\* not hand it through intervening wrappers
usersBelowDropped(child, users) ==
    IF child.kind = "Whitelist" THEN << child.data >> ELSE <<>>

\* the users argument of the recursive calls: child.data.users below a
\* Whitelist, the caller's users below every other wrapper
usersBelow(child, users) ==
    IF child.kind = "Whitelist" THEN << child.data >> ELSE users

\* the nodes findComponentWithId descends into below a child
searchedBelow(v, child) ==
    CASE child.kind \in {"ActionRow", "Ephemeral", "Whitelist"} -> child.children
      [] v = 2 /\ child.kind = "Container" -> child.children
      [] v = 2 /\ child.kind \in {"Accessory", "Section"} -> child.data
      [] OTHER -> <<>>

\* findComponentWithId(Class, children, id, users): <<>> for undefined,
\* otherwise << [instance, users] >> with users <<>> for undefined
RECURSIVE findComponentWithId(_, _, _, _, _)
findComponentWithId(v, Class, kids, id, users) ==
    IF kids = <<>> THEN <<>>
    ELSE LET child == Head(kids) IN
         IF child.kind = Class /\ child.data[1] = id
         THEN << [instance |-> child, users |-> users] >>
         ELSE LET component == findComponentWithId(v, Class, searchedBelow(v, child), id,
                                                   usersBelow(child, users))
              IN IF component # <<>> THEN component
                 ELSE findComponentWithId(v, Class, Tail(kids), id, users)

\* The listener body up to its first await, for an event whose customId is
\* the listener's.
Listen(v, ch, ev, e) ==
    LET found == findComponentWithId(v, e.type, ch, e.customId, <<>>)
        callback == IF found = <<>> THEN "" ELSE found[1].instance.data[2]
        allowedUsers == IF found = <<>> THEN <<>> ELSE found[1].users
        base == [event |-> ev, customId |-> e.customId, user |-> e.user, children |-> ch,
                 steps |-> <<>>, cb |-> "none", ack |-> "none"]
    IN IF callback = "" \/ (allowedUsers # <<>> /\ e.user \notin Range(allowedUsers[1]))
       THEN base
       ELSE IF v = 1
            THEN \* void interaction.deferUpdate(); onClick(interaction)
                 [base EXCEPT !.steps = <<"deferUpdate", "callback">>, !.cb = "running", !.ack = "pending"]
            ELSE \* await onClick(interaction)
                 [base EXCEPT !.steps = <<"callback">>, !.cb = "running"]

\* the interactive components a message shows
RECURSIVE ShownIn(_)
ShownIn(cs) ==
    IF cs = <<>> THEN {}
    ELSE LET c == Head(cs) IN
         (CASE c[1] \in InteractiveTypes -> { [type |-> c[1], customId |-> c[2]] }
            [] c[1] \in {"ActionRow", "Container", "Section"} -> ShownIn(c[2])
            [] OTHER -> {})
         \cup ShownIn(Tail(cs))

\* A user uses a component shown on a message: discord.js emits 'collect'
\* on the message's collectors of that component type; every listener whose
\* customId is the event's runs.
Collect(m, c, user) ==
    /\ Len(events) < MaxEvents
    /\ m \in 1..Len(sent)
    /\ c \in ShownIn(sent[m].components)
    /\ LET e == [message |-> m, type |-> c.type, customId |-> c.customId, user |-> user]
           hit == SelectSeq(collectors, LAMBDA l : l.message = m /\ l.type = c.type /\ l.customId = c.customId)
       IN /\ events' = Append(events, e)
          /\ handlers' = handlers \o [k \in 1..Len(hit) |-> Listen(msgVersion, children, Len(events) + 1, e)]
    /\ UNCHANGED <<dispatchVars, segVars, apVars, rVars, mVars, lateVars>>

\* The user's callback of handler h completes; the components-v2 listener
\* was awaiting it and goes on to await interaction.deferUpdate().
CallbackDone(h) ==
    /\ h \in 1..Len(handlers)
    /\ handlers[h].cb = "running"
    /\ handlers' = [handlers EXCEPT
                      ![h].cb = "done",
                      ![h].steps = IF msgVersion = 1 THEN Append(@, "callbackDone")
                                   ELSE @ \o <<"callbackDone", "deferUpdate">>,
                      ![h].ack = IF msgVersion = 1 THEN @ ELSE "pending"]
    /\ UNCHANGED <<dispatchVars, segVars, events, apVars, rVars, mVars, lateVars>>

\* interaction.deferUpdate() of handler h settles.
AckSettle(h, ok) ==
    /\ h \in 1..Len(handlers)
    /\ handlers[h].ack = "pending"
    /\ handlers' = [handlers EXCEPT
                      ![h].ack = IF ok THEN "ok" ELSE IF msgVersion = 1 THEN "unhandled" ELSE "swallowed"]
    /\ UNCHANGED <<dispatchVars, segVars, events, apVars, rVars, mVars, lateVars>>

SelectS == Node("Select", <<"id3", "s">>, <<>>, FALSE)
AccessoryF == Node("Accessory", << ButtonF >>, <<>>, FALSE)
SectionF == Node("Section", << AccessoryF >>, << TextA >>, FALSE)
ContainerF == Node("Container", <<>>, << SectionF >>, FALSE)
ActionRowFS == Node("ActionRow", <<>>, << ButtonF, SelectS >>, FALSE)
WhitelistRow == Node("Whitelist", <<"u1">>, << ActionRowFS >>, FALSE)
WhitelistContainer == Node("Whitelist", <<"u1">>, << ContainerF >>, FALSE)

\* Trees of the stage variant, whose instance module has no Container,
\* Section or Accessory class, and of the components-v2 variant.
HydTreesV1 ==
    { << WhitelistF >>,
      << ButtonH, WhitelistRow >> }

HydTrees(v) == IF v = 1 THEN HydTreesV1 ELSE HydTreesV1 \cup { << WhitelistContainer >> }

InitHydrate ==
    /\ msgVersion \in {1, 2}
    /\ guild = FALSE
    /\ children = <<>>
    /\ attachments = <<>>
    /\ messages = <<>>
    /\ messageOptions = <<>>
    /\ deferred = FALSE
    /\ replied = FALSE
    /\ queue = <<>>
    /\ running = <<>>
    /\ nextTask = 0
    /\ log = <<>>
    /\ hist = <<>>
    /\ sent = <<>>
    /\ treeChanged = FALSE
    /\ setup = <<>>
    /\ hydratedIds = <<>>
    /\ collectors = <<>>
    /\ SegIdle
    /\ OthersIdle

NextHydrate ==
    \/ \E tree \in HydTrees(msgVersion) : nextTask < MaxHydCommits /\ Commit(tree)
    \/ \E k \in 1..maxPendingPromises, ok \in BOOLEAN : Settle(k, ok)
    \/ \E m \in 1..MaxHydCommits, c \in [type : InteractiveTypes, customId : {"id1", "id2", "id3"}], user \in Users :
          Collect(m, c, user)
    \/ \E h \in 1..MaxEvents : CallbackDone(h)
    \/ \E h \in 1..MaxEvents, ok \in BOOLEAN : AckSettle(h, ok)

SpecHydrate == InitHydrate /\ [][NextHydrate]_vars

\* the wrappers a whitelist reaches through
Interveners == {"ActionRow", "Section", "Accessory", "Container"}

\* the nodes directly inside a node
Subnodes(n) == n.children \o (IF n.kind \in {"Section", "Accessory"} THEN n.data ELSE <<>>)

\* n is the component id, or holds it below intervening wrappers only
RECURSIVE Reach(_, _)
Reach(n, id) ==
    \/ n.kind \in InteractiveTypes /\ n.data[1] = id
    \/ n.kind \in Interveners /\ \E k \in 1..Len(Subnodes(n)) : Reach(Subnodes(n)[k], id)

\* the user lists of the Whitelist wrappers of the tree that hold component id
RECURSIVE WrappersOf(_, _)
WrappersOf(nodes, id) ==
    UNION { (IF nodes[j].kind = "Whitelist" /\ \E k \in 1..Len(nodes[j].children) : Reach(nodes[j].children[k], id)
             THEN { Range(nodes[j].data) } ELSE {})
            \cup WrappersOf(Subnodes(nodes[j]), id) : j \in 1..Len(nodes) }

\* C12: whitelist authorization: an event on a button or select held by a
\* Whitelist wrapper (directly or below action row, section, accessory or
\* container) from a user outside the wrapper's list runs no callback,
\* acknowledges nothing and raises nothing; from a listed user the callback
\* is invoked.
C12_WhitelistAuthorization ==
    \A h \in 1..Len(handlers) :
        LET hd == handlers[h]
            ws == WrappersOf(hd.children, hd.customId)
        IN /\ (\E w \in ws : hd.user \notin w)
                 => (hd.steps = <<>> /\ hd.cb = "none" /\ hd.ack = "none")
           /\ (ws # {} /\ \A w \in ws : hd.user \in w)
                 => (\E k \in 1..Len(hd.steps) : hd.steps[k] = "callback")

\* Under the components-v2 variant a button in the accessory of a section
\* of a container of a whitelist was used by an outsider, who was ignored,
\* and by a listed user, whose callback ran.
C12_Witness ==
    /\ msgVersion = 2
    /\ \E a, b \in 1..Len(handlers) :
          /\ handlers[a].children = << WhitelistContainer >>
          /\ handlers[a].user = "u2" /\ handlers[a].steps = <<>>
          /\ handlers[b].children = << WhitelistContainer >>
          /\ handlers[b].user = "u1" /\ handlers[b].cb = "done" /\ handlers[b].ack = "ok"

\* C14: for a permitted event the callback is invoked first and awaited to
\* completion, only then is the interaction acknowledged, and a failed
\* acknowledgement is swallowed.
C14_CallbackThenAck ==
    \A h \in 1..Len(handlers) :
        LET s == handlers[h].steps IN
        s # <<>> =>
            /\ s[1] = "callback"
            /\ \A k \in 1..Len(s) : s[k] = "deferUpdate" => \E j \in 1..(k - 1) : s[j] = "callbackDone"
            /\ handlers[h].ack # "unhandled"

\* ------------------------------------------------------------------------
\* appendChild of the instance classes.
\* A parent is [kind, stored]: stored lists, in order, the children its data
\* holds (texts, components, children, fields, the image, the accessory,
\* the emoji, ...), each as [id, kind].
\* The result of a call is [threw, error, stored]; an error is
\* [class, expected, found]: the error class and the kinds its message names.
\* ------------------------------------------------------------------------
MaxAppends == 2

AllKinds ==
    {"Accessory", "ActionRow", "Answer", "Button", "Container", "Divider", "Embed", "Emoji",
     "Empty", "Ephemeral", "Field", "File", "Gallery", "Image", "Markdown", "Option", "Poll",
     "Section", "Select", "Text", "Thumbnail", "Whitelist"}

\* the classes whose appendChild goes through enforceType, with the
\* class list they pass
EnforcedKinds ==
    {"Accessory", "Answer", "Button", "Embed", "Gallery", "Markdown", "Option", "Poll",
     "Section", "Select", "Thumbnail"}

EnforcedTypes(kind) ==
    CASE kind = "Accessory" -> {"Button", "Image"}
      [] kind = "Answer" -> {"Text"}
      [] kind = "Button" -> {"Emoji", "Text"}
      [] kind = "Embed" -> {"Image", "Empty", "Thumbnail", "Field"}
      [] kind = "Gallery" -> {"Image"}
      [] kind = "Markdown" -> {"Text"}
      [] kind = "Option" -> {"Emoji", "Text"}
      [] kind = "Poll" -> {"Answer"}
      [] kind = "Section" -> {"Accessory", "Markdown", "Text"}
      [] kind = "Select" -> {"Option"}
      [] kind = "Thumbnail" -> {"Image", "Empty"}

\* classes whose appendChild throws whatever the child
ChildlessKinds == {"Divider", "Emoji", "File", "Image", "Text"}

\* classes whose appendChild stores any child
OpenKinds == {"Container", "Ephemeral", "Whitelist"}

\* classes that have an asText method
AsTextKinds == {"Markdown", "Text"}

NoError == [class |-> "", expected |-> {}, found |-> ""]

\* throw new TypeError(`Expected ..., found ...`)
enforceType(childKind, classes) ==
    IF childKind \in classes
    THEN [threw |-> FALSE, error |-> NoError]
    ELSE [threw |-> TRUE, error |-> [class |-> "TypeError", expected |-> classes, found |-> childKind]]

\* stored with the child put into a slot that holds one child of its kind
ReplaceKind(stored, child) ==
    Append(SelectSeq(stored, LAMBDA c : c.kind # child.kind), child)

\* parent.appendChild(child) for a parent of the given kind
appendChild(kind, stored, child) ==
    CASE kind \in EnforcedKinds ->
            LET e == enforceType(child.kind, EnforcedTypes(kind)) IN
            IF e.threw THEN [threw |-> TRUE, error |-> e.error, stored |-> stored]
            ELSE [threw |-> FALSE, error |-> NoError,
                  stored |-> CASE kind = "Accessory" -> << child >>
                               [] kind \in {"Embed", "Thumbnail"} /\ child.kind = "Empty" -> stored
                               [] kind \in {"Embed", "Thumbnail"} /\ child.kind \in {"Image", "Thumbnail"} ->
                                      ReplaceKind(stored, child)
                               [] kind \in {"Button", "Option"} /\ child.kind = "Emoji" -> ReplaceKind(stored, child)
                               [] kind = "Section" /\ child.kind = "Accessory" -> ReplaceKind(stored, child)
                               [] OTHER -> Append(stored, child)]
      [] kind = "ActionRow" ->
            \* throw new Error('<ActionRow> can only contain <Button> and <Select> components')
            IF child.kind \notin {"Button", "Select"}
            THEN [threw |-> TRUE, error |-> [class |-> "Error", expected |-> {"Button", "Select"}, found |-> ""],
                  stored |-> stored]
            ELSE [threw |-> FALSE, error |-> NoError, stored |-> Append(stored, child)]
      [] kind = "Field" ->
            \* throw new Error('Cannot append a child to <Field> that cannot be converted to text.')
            IF child.kind \notin AsTextKinds
            THEN [threw |-> TRUE, error |-> [class |-> "Error", expected |-> {}, found |-> ""], stored |-> stored]
            ELSE [threw |-> FALSE, error |-> NoError, stored |-> Append(stored, child)]
      [] kind \in ChildlessKinds ->
            \* throw new Error('<...> does not support children.')
            [threw |-> TRUE, error |-> [class |-> "Error", expected |-> {}, found |-> ""], stored |-> stored]
      [] kind = "Empty" ->
            [threw |-> FALSE, error |-> NoError, stored |-> stored]
      [] kind \in OpenKinds ->
            [threw |-> FALSE, error |-> NoError, stored |-> Append(stored, child)]

\* The reconciler appends a child of some kind to the parent
\* (appendInitialChild / appendChild of the host config).
AppendChildCall(childKind) ==
    /\ Len(apLog) < MaxAppends
    /\ LET child == [id |-> Len(apLog) + 1, kind |-> childKind]
           r == appendChild(apParent.kind, apParent.stored, child)
       IN /\ apParent' = [apParent EXCEPT !.stored = r.stored]
          /\ apLog' = Append(apLog, [parent |-> apParent.kind, child |-> childKind,
                                     before |-> apParent.stored, after |-> r.stored,
                                     threw |-> r.threw, error |-> r.error])
    /\ UNCHANGED <<dispatchVars, segVars, evVars, rVars, mVars, lateVars>>

InitAppend ==
    /\ apParent \in [kind : AllKinds, stored : { <<>> }]
    /\ apLog = <<>>
    /\ DispatchIdle
    /\ SegIdle
    /\ EvIdle
    /\ RenderIdle
    /\ MixerIdle
    /\ LateIdle

NextAppend == \E childKind \in AllKinds : AppendChildCall(childKind)

SpecAppend == InitAppend /\ [][NextAppend]_vars

\* the child kinds a node kind accepts
Accepts(kind) ==
    CASE kind \in EnforcedKinds -> EnforcedTypes(kind)
      [] kind = "ActionRow" -> {"Button", "Select"}
      [] kind = "Field" -> AsTextKinds
      [] kind \in ChildlessKinds -> {}
      [] OTHER -> AllKinds

\* C18: appendChild of a child outside the parent's acceptance set throws a
\* type-mismatch error naming the expected kinds and the found kind and
\* leaves the parent's data as it was; every stored child is of an accepted
\* kind.
C18_AppendChildTypeChecked ==
    /\ \A a \in 1..Len(apLog) :
          apLog[a].child \notin Accepts(apLog[a].parent) =>
              /\ apLog[a].threw
              /\ apLog[a].error.class = "TypeError"
              /\ apLog[a].error.expected = Accepts(apLog[a].parent)
              /\ apLog[a].error.found = apLog[a].child
              /\ apLog[a].after = apLog[a].before
    /\ \A k \in 1..Len(apParent.stored) : apParent.stored[k].kind \in Accepts(apParent.kind)

\* ------------------------------------------------------------------------
\* The reconciler host config (renderer.ts) working on one container.
\* An instance is [kind, props, data, stored, isHidden, customId0, touched]:
\*   props      the props of the last render (a function from keys to values)
\*   data       instance.data as a function from keys to values
\*   stored     the children its data holds, as for appendChild above
\*   customId0  history: the customId createInstance assigned
\*   touched    history: the host config calls applied to it after creation
\* ------------------------------------------------------------------------
MaxRenderOps == 5

PropKeys == {"disabled", "children"}
PropVals == {"a", "b"}
Texts == {"a"}

\* the values a key takes in the elements rendered
PropValsOf(key) == IF key = "children" THEN Texts ELSE PropVals

\* every props object over the keys
AllProps ==
    UNION { {f \in [D -> PropVals] : \A key \in D : f[key] \in PropValsOf(key)} : D \in SUBSET PropKeys }

\* obj[key], undefined for a missing key
Get(obj, key) == IF key \in DOMAIN obj THEN obj[key] ELSE "undefined"

\* uuidv4(): the n-th identifier drawn
uuidv4(n) == <<"uuid", n>>

\* ButtonInstance.createInstance(props)
createInstance(props, n) ==
    [kind |-> "Button", props |-> props,
     data |-> [k \in {"customId", "disabled"} |->
                  IF k = "customId" THEN uuidv4(n)
                  ELSE IF "disabled" \in DOMAIN props THEN props["disabled"] ELSE "false"],
     stored |-> <<>>, isHidden |-> FALSE, customId0 |-> uuidv4(n), touched |-> {}]

\* createTextInstance(text)
createTextInstance(text) ==
    [kind |-> "Text", props |-> <<>>, data |-> [k \in {"text"} |-> text],
     stored |-> <<>>, isHidden |-> FALSE, customId0 |-> <<>>, touched |-> {}]

\* prepareUpdate(instance, type, oldProps, newProps): null or the delta
prepareUpdate(oldProps, newProps) ==
    LET keys == {key \in DOMAIN oldProps : key # "children" /\ oldProps[key] # Get(newProps, key)}
    IN [isNull |-> keys = {}, delta |-> [key \in keys |-> Get(newProps, key)]]

\* a commitUpdate that builds the data anew, identifier included
commitUpdateFresh(data, updatePayload) ==
    [k \in DOMAIN data \cup DOMAIN updatePayload |->
        IF k = "customId" THEN uuidv4(0)
        ELSE IF k \in DOMAIN updatePayload THEN updatePayload[k] ELSE data[k]]

\* commitUpdate: instance.data = { ...instance.data, ...updatePayload }
commitUpdate(data, updatePayload) ==
    [k \in DOMAIN data \cup DOMAIN updatePayload |->
        IF k \in DOMAIN updatePayload THEN updatePayload[k] ELSE data[k]]

\* an appendChildToContainer that also notifies the container
appendChildToContainerNotifying(container, child) ==
    [container EXCEPT !.children = Append(@, child),
                      !.onChange = Append(@, Append(container.children, child))]

\* appendChildToContainer: container.children.push(child)
appendChildToContainer(container, child) ==
    [container EXCEPT !.children = Append(@, child)]

\* removeChildFromContainer: container.children.filter(c => c !== child)
removeChildFromContainer(container, child) ==
    [container EXCEPT !.children = SelectSeq(@, LAMBDA c : c # child)]

\* resetAfterCommit: void container.onChange?.()
resetAfterCommit(container) ==
    [container EXCEPT !.onChange = Append(@, container.children)]

\* texts.splice(texts.indexOf(child), 1) when the child is found
spliceOne(texts, child) ==
    IF \E k \in DOMAIN texts : texts[k] = child
    THEN LET index == CHOOSE k \in DOMAIN texts :
                         texts[k] = child /\ \A j \in 1..(k - 1) : texts[j] # child
         IN SubSeq(texts, 1, index - 1) \o SubSeq(texts, index + 1, Len(texts))
    ELSE texts

\* stored without the child, found by identity
Without(stored, child) == SelectSeq(stored, LAMBDA c : c.id # child.id)

\* stored with the slot of the child's kind emptied, whichever child is in it
WithoutKind(stored, child) == SelectSeq(stored, LAMBDA c : c.kind # child.kind)

\* the class list removeChild passes to enforceType, for the classes whose
\* removeChild calls it
RemoveEnforcedTypes(kind) ==
    CASE kind = "ActionRow" -> {"Button", "Select"}
      [] kind \in {"Answer", "Button"} -> {"Text"}
      [] kind = "Embed" -> {"Image", "Empty", "Thumbnail", "Field"}
      [] kind = "Poll" -> {"Answer"}
      [] kind = "Thumbnail" -> {"Image", "Empty"}

\* parent.removeChild(child) for a parent of the given kind
removeChild(kind, stored, child) ==
    CASE kind \in {"ActionRow", "Answer", "Button", "Embed", "Poll", "Thumbnail"} ->
            IF enforceType(child.kind, RemoveEnforcedTypes(kind)).threw
            THEN [threw |-> TRUE, stored |-> stored]
            ELSE [threw |-> FALSE,
                  stored |-> CASE kind \in {"Embed", "Thumbnail"} /\ child.kind = "Empty" -> stored
                               [] kind \in {"Embed", "Thumbnail"} /\ child.kind \in {"Image", "Thumbnail"} ->
                                      WithoutKind(stored, child)
                               [] kind = "Embed" \/ kind = "Poll" -> Without(stored, child)
                               [] OTHER -> spliceOne(stored, child)]
      [] kind \in {"Option", "Section"} ->
            \* label / children are filtered, the emoji and the accessory stay
            [threw |-> FALSE,
             stored |-> IF child.kind \in {"Emoji", "Accessory"} THEN stored ELSE Without(stored, child)]
      [] kind \in ChildlessKinds ->
            [threw |-> TRUE, stored |-> stored]
      [] kind = "Empty" ->
            [threw |-> FALSE, stored |-> stored]
      [] kind = "Accessory" ->
            [threw |-> FALSE, stored |-> IF stored = << child >> THEN <<>> ELSE stored]
      [] kind = "Ephemeral" ->
            [threw |-> FALSE, stored |-> spliceOne(stored, child)]
      [] OTHER ->
            [threw |-> FALSE, stored |-> Without(stored, child)]

Touch(i, op) == [rInst EXCEPT ![i].touched = @ \cup {op}]

\* render phase: createInstance for the <Button> element, once its text
\* child exists (the reconciler completes children before their parent)
CreateInstance(props) ==
    /\ Len(rInst) = 1
    /\ rInst' = Append(rInst, createInstance(props, Len(rInst) + 1))
    /\ UNCHANGED <<rContainer, rPassEnds, rLastUpdate, rOps>>

\* render phase: createTextInstance for the text of <Button>text</Button>
CreateTextInstance(text) ==
    /\ rInst = <<>>
    /\ rInst' = Append(rInst, createTextInstance(text))
    /\ UNCHANGED <<rContainer, rPassEnds, rLastUpdate, rOps>>

\* appendInitialChild / appendChild: parentInstance.appendChild(child)
HostAppendChild(p, c) ==
    /\ rOps < MaxRenderOps
    /\ p \in 1..Len(rInst) /\ c \in 1..Len(rInst) /\ p # c
    /\ LET r == appendChild(rInst[p].kind, rInst[p].stored, [id |-> c, kind |-> rInst[c].kind])
       IN rInst' = [Touch(p, "appendChild") EXCEPT ![p].stored = r.stored]
    /\ rOps' = rOps + 1
    /\ UNCHANGED <<rContainer, rPassEnds, rLastUpdate>>

\* removeChild: parentInstance.removeChild(child)
HostRemoveChild(p, c) ==
    /\ rOps < MaxRenderOps
    /\ p \in 1..Len(rInst) /\ c \in 1..Len(rInst) /\ p # c
    /\ LET r == removeChild(rInst[p].kind, rInst[p].stored, [id |-> c, kind |-> rInst[c].kind])
       IN rInst' = [Touch(p, "removeChild") EXCEPT ![p].stored = r.stored]
    /\ rOps' = rOps + 1
    /\ UNCHANGED <<rContainer, rPassEnds, rLastUpdate>>

\* A re-render of a <Button> element with new props: prepareUpdate in the
\* render phase, and commitUpdate in the commit phase when the delta is
\* not null.
Update(i, newProps) ==
    /\ rOps < MaxRenderOps
    /\ i \in 1..Len(rInst) /\ rInst[i].kind = "Button"
    /\ LET u == prepareUpdate(rInst[i].props, newProps) IN
       /\ rLastUpdate' = << [old |-> rInst[i].props, new |-> newProps,
                            isNull |-> u.isNull, delta |-> u.delta, committed |-> ~u.isNull] >>
       /\ rInst' = IF u.isNull THEN [rInst EXCEPT ![i].props = newProps]
                   ELSE [Touch(i, "commitUpdate") EXCEPT
                           ![i].props = newProps,
                           ![i].data = commitUpdate(rInst[i].data, u.delta)]
    /\ rOps' = rOps + 1
    /\ UNCHANGED <<rContainer, rPassEnds>>

\* hideInstance / hideTextInstance, unhideInstance / unhideTextInstance
SetHidden(i, hidden) ==
    /\ rOps < MaxRenderOps
    /\ i \in 1..Len(rInst) /\ rInst[i].isHidden # hidden
    /\ rInst' = [Touch(i, IF hidden THEN "hide" ELSE "unhide") EXCEPT ![i].isHidden = hidden]
    /\ rOps' = rOps + 1
    /\ UNCHANGED <<rContainer, rPassEnds, rLastUpdate>>

HostAppendChildToContainer(c) ==
    /\ rOps < MaxRenderOps
    /\ c \in 1..Len(rInst) /\ \A k \in 1..Len(rContainer.children) : rContainer.children[k] # c
    /\ rContainer' = appendChildToContainer(rContainer, c)
    /\ rOps' = rOps + 1
    /\ UNCHANGED <<rInst, rPassEnds, rLastUpdate>>

HostRemoveChildFromContainer(c) ==
    /\ rOps < MaxRenderOps
    /\ \E k \in 1..Len(rContainer.children) : rContainer.children[k] = c
    /\ rContainer' = removeChildFromContainer(rContainer, c)
    /\ rOps' = rOps + 1
    /\ UNCHANGED <<rInst, rPassEnds, rLastUpdate>>

\* The commit phase of a pass ends: the reconciler calls resetAfterCommit.
ResetAfterCommit ==
    /\ rOps < MaxRenderOps
    /\ rContainer' = resetAfterCommit(rContainer)
    /\ rPassEnds' = Append(rPassEnds, rContainer.children)
    /\ rOps' = rOps + 1
    /\ UNCHANGED <<rInst, rLastUpdate>>

InitRender ==
    /\ RenderIdle
    /\ DispatchIdle
    /\ SegIdle
    /\ EvIdle
    /\ ApIdle
    /\ MixerIdle
    /\ LateIdle

NextRender ==
    \/ (\E props \in AllProps : CreateInstance(props)) /\ UNCHANGED <<dispatchVars, segVars, evVars, apVars, mVars, lateVars>>
    \/ (\E text \in Texts : CreateTextInstance(text)) /\ UNCHANGED <<dispatchVars, segVars, evVars, apVars, mVars, lateVars>>
    \/ (\E p, c \in DOMAIN rInst : HostAppendChild(p, c)) /\ UNCHANGED <<dispatchVars, segVars, evVars, apVars, mVars, lateVars>>
    \/ (\E p, c \in DOMAIN rInst : HostRemoveChild(p, c)) /\ UNCHANGED <<dispatchVars, segVars, evVars, apVars, mVars, lateVars>>
    \/ (\E i \in DOMAIN rInst, props \in AllProps : Update(i, props)) /\ UNCHANGED <<dispatchVars, segVars, evVars, apVars, mVars, lateVars>>
    \/ (\E i \in DOMAIN rInst, hidden \in BOOLEAN : SetHidden(i, hidden)) /\ UNCHANGED <<dispatchVars, segVars, evVars, apVars, mVars, lateVars>>
    \/ (\E c \in DOMAIN rInst : HostAppendChildToContainer(c)) /\ UNCHANGED <<dispatchVars, segVars, evVars, apVars, mVars, lateVars>>
    \/ (\E c \in DOMAIN rInst : HostRemoveChildFromContainer(c)) /\ UNCHANGED <<dispatchVars, segVars, evVars, apVars, mVars, lateVars>>
    \/ ResetAfterCommit /\ UNCHANGED <<dispatchVars, segVars, evVars, apVars, mVars, lateVars>>

SpecRender == InitRender /\ [][NextRender]_vars

Changed(old, new) ==
    {key \in (DOMAIN old \cup DOMAIN new) \ {"children"} : Get(old, key) # Get(new, key)}

\* C16: the delta prepareUpdate returns holds exactly the non-children keys
\* whose value differs between old and new props, keys present only in the
\* new props included, with their new values, and it is null, so that
\* commitUpdate is not invoked, exactly when no value changed.
C16_DiffMinimal ==
    \A k \in DOMAIN rLastUpdate :
        LET u == rLastUpdate[k] IN
        /\ DOMAIN u.delta = Changed(u.old, u.new)
        /\ \A key \in DOMAIN u.delta : u.delta[key] = Get(u.new, key)
        /\ u.isNull <=> Changed(u.old, u.new) = {}
        /\ u.committed <=> ~u.isNull

MaxTracks == 4
MaxHandles == 3
MaxChannels == 2

Int16Min == -32768
Int16Max == 32767
TwoPow16 == 65536

Samples == {Int16Min, -1, 0, Int16Max}
Volumes == { <<1, 2>>, <<1, 1>>, <<2, 1>> }

\* new MixerStream(), unallocated
NewStream == [allocation |-> <<>>, stream |-> <<>>, isStreamPaused |-> FALSE, volume |-> <<1, 1>>]

\* the integer part of num / den, den positive (the fraction is dropped
\* when a number is stored into a byte array)
TruncDiv(num, den) == IF num >= 0 THEN num \div den ELSE -((-num) \div den)

\* buf.writeInt16LE(num / den): a RangeError outside the 16-bit range,
\* otherwise the two bytes stored, as an unsigned 16-bit word
writeInt16LE(num, den) ==
    IF num > Int16Max * den \/ num < Int16Min * den
    THEN [threw |-> TRUE, word |-> 0]
    ELSE [threw |-> FALSE, word |-> TruncDiv(num, den) % TwoPow16]

\* buf.readInt16LE(): the signed value of a 16-bit word
readInt16LE(word) == IF word >= TwoPow16 \div 2 THEN word - TwoPow16 ELSE word

RECURSIVE SumSeq(_)
\* values.reduce((a, b) => a + b, 0)
SumSeq(values) == IF values = <<>> THEN 0 ELSE Head(values) + SumSeq(Tail(values))

\* Math.max(Math.min(x, 32767), -32768)
Clamp(x) == IF x > Int16Max THEN Int16Max ELSE IF x < Int16Min THEN Int16Min ELSE x

\* MixerStream._read at one sample: nothing the mixer can read while no
\* stream plays, otherwise the sample scaled by the volume
streamRead(s, sample) ==
    IF s.stream = <<>> \/ s.isStreamPaused
    THEN [live |-> FALSE, threw |-> FALSE, word |-> 0]
    ELSE LET w == writeInt16LE(sample * s.volume[1], s.volume[2])
         IN [live |-> TRUE, threw |-> w.threw, word |-> w.word]

\* Mixer._read at one sample over the buffers read from the channels
mixerRead(reads) ==
    LET results == SelectSeq(reads, LAMBDA r : r.live /\ ~r.threw)
        values == [k \in DOMAIN results |-> readInt16LE(results[k].word)]
    IN IF results = <<>> THEN 0
       ELSE readInt16LE(writeInt16LE(Clamp(SumSeq(values)), 1).word)

\* this.streams.find(s => s.allocation === allocation): its position, 0 if none
findStream(streams, allocation) ==
    IF \E k \in DOMAIN streams : streams[k].allocation = allocation
    THEN CHOOSE k \in DOMAIN streams :
            streams[k].allocation = allocation /\ \A j \in 1..(k - 1) : streams[j].allocation # allocation
    ELSE 0

\* Mixer.playTrack(stream, startPaused) with the handle drawn
playTrack(streams, handle, startPaused) ==
    LET found == findStream(streams, <<>>)
        pushed == IF found = 0 THEN Append(streams, NewStream) ELSE streams
        k == IF found = 0 THEN Len(pushed) ELSE found
    IN [pushed EXCEPT ![k].allocation = <<handle>>,
                      ![k].stream = <<handle>>,
                      ![k].isStreamPaused = (startPaused = TRUE)]

\* a removeAllocation that drops the channel from the mixer
removeAllocationSplicing(streams, handle) ==
    LET k == findStream(streams, <<handle>>)
    IN IF k = 0 THEN streams ELSE SubSeq(streams, 1, k - 1) \o SubSeq(streams, k + 1, Len(streams))

\* Mixer.removeAllocation(handle)
removeAllocation(streams, handle) ==
    LET k == findStream(streams, <<handle>>)
    IN IF k = 0 THEN streams ELSE [streams EXCEPT ![k].allocation = <<>>]

\* getStreamFromHandle(handle)?.pauseStream() / resumeStream()
setPaused(streams, handle, paused) ==
    LET k == findStream(streams, <<handle>>)
    IN IF k = 0 THEN streams ELSE [streams EXCEPT ![k].isStreamPaused = paused]

\* Mixer.stopTrack(handle): pause the channel, then free it
stopTrack(streams, handle) == removeAllocation(setPaused(streams, handle, TRUE), handle)

Allocations(streams) == [k \in DOMAIN streams |-> streams[k].allocation]

\* One entry per playTrack, stopTrack and natural end: the handle, the
\* allocations before and after, whether any channel changed, the number of
\* end listeners called and the allocations they saw, and the source the
\* handle's channel was playing.
Traced(op, handle, fired, before, after) ==
    Append(mTrace, [op |-> op, handle |-> handle,
                    before |-> Allocations(before), after |-> Allocations(after),
                    changed |-> before # after,
                    fired |-> fired,
                    seen |-> IF fired > 0 THEN << Allocations(before) >> ELSE <<>>,
                    playing |-> IF findStream(before, <<handle>>) # 0
                                THEN before[findStream(before, <<handle>>)].stream ELSE <<>>])

\* if (this.endListeners[handle]) for (const handler of ...) handler():
\* the number of listeners stopTrack calls
listenersOf(listeners, handle) == IF handle \in listeners THEN 1 ELSE 0

\* an 'end' listener that stops the track whatever its channel holds
stillAllocatedAlways(streams, handle) == TRUE

\* unallocatedStream.allocation === handle, in the 'end' listener of playTrack
stillAllocated(streams, handle) == findStream(streams, <<handle>>) # 0

\* the source changeTrack gives to the track of a handle
Replacement(handle) == 0 - handle

\* Mixer.changeTrack(handle, readable): getStreamFromHandle(handle)?.play(readable)
changeTrack(streams, handle) ==
    LET k == findStream(streams, <<handle>>)
    IN IF k = 0 THEN streams
       ELSE [streams EXCEPT ![k].stream = << Replacement(handle) >>, ![k].isStreamPaused = FALSE]

\* the last call on the mixer stopped or ended the track of the handle and
\* freed its channel
JustFreed(handle) ==
    /\ mTrace # <<>>
    /\ mTrace[Len(mTrace)].op \in {"stopTrack", "end"}
    /\ mTrace[Len(mTrace)].handle = handle
    /\ mTrace[Len(mTrace)].changed

PlayTrack(startPaused) ==
    /\ mHandles < MaxTracks
    /\ mHandles' = mHandles + 1
    /\ mStreams' = playTrack(mStreams, mHandles + 1, startPaused)
    /\ mTrace' = Traced("playTrack", mHandles + 1, 0, mStreams, mStreams')
    /\ UNCHANGED <<mListeners, mEnded, mOut>>

\* Mixer.onTrackEnd(handle, func)
OnTrackEnd(handle) ==
    /\ handle \in 1..mHandles /\ handle \notin mListeners
    /\ mListeners' = mListeners \cup {handle}
    /\ UNCHANGED <<mStreams, mHandles, mTrace, mEnded, mOut>>

\* Mixer.stopTrack(handle): the end listeners of the handle are called,
\* then the channel that holds the handle, if any, is paused and freed.
\* The handle is that of a playing track, or of the track the last call
\* stopped or ended.
StopTrack(handle) ==
    /\ handle \in 1..mHandles
    /\ findStream(mStreams, <<handle>>) # 0 \/ JustFreed(handle)
    /\ mStreams' = stopTrack(mStreams, handle)
    /\ mTrace' = Traced("stopTrack", handle, listenersOf(mListeners, handle), mStreams, mStreams')
    /\ UNCHANGED <<mHandles, mListeners, mEnded, mOut>>

\* the source playTrack was given ends and its playing time has passed:
\* the 'end' listener of playTrack stops the track when its channel still
\* holds the handle, and does nothing otherwise
TrackEnd(handle) ==
    /\ handle \in 1..mHandles /\ handle \notin mEnded
    /\ mEnded' = mEnded \cup {handle}
    /\ IF stillAllocated(mStreams, handle)
       THEN /\ mStreams' = stopTrack(mStreams, handle)
            /\ mTrace' = Traced("end", handle, listenersOf(mListeners, handle), mStreams, mStreams')
       ELSE UNCHANGED <<mStreams, mTrace>>
    /\ UNCHANGED <<mHandles, mListeners, mOut>>

ChangeTrack(handle) ==
    /\ findStream(mStreams, <<handle>>) # 0
    /\ mStreams' = changeTrack(mStreams, handle)
    /\ mStreams' # mStreams
    /\ UNCHANGED <<mHandles, mTrace, mListeners, mEnded, mOut>>

SetTrackVolume(handle, volume) ==
    /\ findStream(mStreams, <<handle>>) # 0
    /\ mStreams' = [mStreams EXCEPT ![findStream(mStreams, <<handle>>)].volume = volume]
    /\ mStreams' # mStreams
    /\ mOut' = <<>>
    /\ UNCHANGED <<mHandles, mTrace, mListeners, mEnded>>

PauseTrack(handle) ==
    /\ mStreams' = setPaused(mStreams, handle, TRUE)
    /\ mStreams' # mStreams
    /\ mOut' = <<>>
    /\ UNCHANGED <<mHandles, mTrace, mListeners, mEnded>>

ResumeTrack(handle) ==
    /\ mStreams' = setPaused(mStreams, handle, FALSE)
    /\ mStreams' # mStreams
    /\ mOut' = <<>>
    /\ UNCHANGED <<mHandles, mTrace, mListeners, mEnded>>

\* one tick of the mixer, the sources delivering the given samples
Tick(samples) ==
    /\ mStreams # <<>>
    /\ LET reads == [k \in DOMAIN mStreams |-> streamRead(mStreams[k], samples[k])] IN
       /\ \A k \in DOMAIN mStreams : ~reads[k].live => samples[k] = 0
       /\ mOut' = << [inputs |-> [k \in DOMAIN mStreams |->
                                    [live |-> reads[k].live, sample |-> samples[k],
                                     volume |-> mStreams[k].volume]],
                      failed |-> \E k \in DOMAIN reads : reads[k].threw,
                      output |-> mixerRead(reads)] >>
    /\ UNCHANGED <<mStreams, mHandles, mTrace, mListeners, mEnded>>

\* new Mixer(): streamCount = 1
InitMixer ==
    /\ mStreams = << NewStream >>
    /\ mHandles = 0
    /\ mTrace = <<>>
    /\ mListeners = {}
    /\ mEnded = {}
    /\ mOut = <<>>
    /\ DispatchIdle
    /\ SegIdle
    /\ EvIdle
    /\ ApIdle
    /\ RenderIdle
    /\ LateIdle

NextMixer ==
    \/ (\E startPaused \in BOOLEAN : PlayTrack(startPaused)) /\ UNCHANGED <<dispatchVars, segVars, evVars, apVars, rVars, lateVars>>
    \/ (\E handle \in 1..MaxTracks : findStream(mStreams, <<handle>>) # 0 /\ StopTrack(handle)) /\ UNCHANGED <<dispatchVars, segVars, evVars, apVars, rVars, lateVars>>
    \/ (\E handle \in 1..MaxTracks : findStream(mStreams, <<handle>>) # 0 /\ TrackEnd(handle)) /\ UNCHANGED <<dispatchVars, segVars, evVars, apVars, rVars, lateVars>>
    \/ (\E handle \in 1..MaxTracks : PauseTrack(handle)) /\ UNCHANGED <<dispatchVars, segVars, evVars, apVars, rVars, lateVars>>
    \/ (\E handle \in 1..MaxTracks : ResumeTrack(handle)) /\ UNCHANGED <<dispatchVars, segVars, evVars, apVars, rVars, lateVars>>

SpecMixer == InitMixer /\ [][NextMixer]_vars

\* the last call on the mixer was the playTrack that returned the handle
JustPlayed(handle) ==
    /\ mTrace # <<>>
    /\ mTrace[Len(mTrace)].op = "playTrack"
    /\ mTrace[Len(mTrace)].handle = handle
    /\ handle \notin mEnded

\* tracks with end listeners, stopped by the caller at any time, ending
\* naturally and given new sources
NextTrack ==
    \/ (mHandles < MaxHandles /\ PlayTrack(FALSE)) /\ UNCHANGED <<dispatchVars, segVars, evVars, apVars, rVars, lateVars>>
    \/ (\E handle \in 1..MaxHandles : JustPlayed(handle) /\ OnTrackEnd(handle)) /\ UNCHANGED <<dispatchVars, segVars, evVars, apVars, rVars, lateVars>>
    \/ (\E handle \in 1..MaxHandles : StopTrack(handle)) /\ UNCHANGED <<dispatchVars, segVars, evVars, apVars, rVars, lateVars>>
    \/ (\E handle \in 1..MaxHandles : TrackEnd(handle)) /\ UNCHANGED <<dispatchVars, segVars, evVars, apVars, rVars, lateVars>>

SpecTrack == InitMixer /\ [][NextTrack]_vars

\* tracks given new sources while they play
NextChange ==
    \/ (mHandles < MaxHandles /\ PlayTrack(FALSE)) /\ UNCHANGED <<dispatchVars, segVars, evVars, apVars, rVars, lateVars>>
    \/ (\E handle \in 1..MaxHandles : ChangeTrack(handle)) /\ UNCHANGED <<dispatchVars, segVars, evVars, apVars, rVars, lateVars>>
    \/ (\E handle \in 1..MaxHandles : findStream(mStreams, <<handle>>) # 0 /\ StopTrack(handle)) /\ UNCHANGED <<dispatchVars, segVars, evVars, apVars, rVars, lateVars>>
    \/ (\E handle \in 1..MaxHandles : TrackEnd(handle)) /\ UNCHANGED <<dispatchVars, segVars, evVars, apVars, rVars, lateVars>>

SpecChange == InitMixer /\ [][NextChange]_vars

\* the channels after n playTrack calls on a new mixer
Playing(n) ==
    [k \in 1..n |-> [allocation |-> <<k>>, stream |-> <<k>>, isStreamPaused |-> FALSE, volume |-> <<1, 1>>]]

\* a mixer with one or more tracks playing
InitMix ==
    /\ \E n \in 1..MaxChannels : mStreams = Playing(n) /\ mHandles = n
    /\ mTrace = <<>>
    /\ mListeners = {}
    /\ mEnded = {}
    /\ mOut = <<>>
    /\ DispatchIdle
    /\ SegIdle
    /\ EvIdle
    /\ ApIdle
    /\ RenderIdle
    /\ LateIdle

NextMix ==
    \/ (\E handle \in 1..MaxChannels, volume \in Volumes : SetTrackVolume(handle, volume)) /\ UNCHANGED <<dispatchVars, segVars, evVars, apVars, rVars, lateVars>>
    \/ (\E handle \in 1..MaxChannels : PauseTrack(handle)) /\ UNCHANGED <<dispatchVars, segVars, evVars, apVars, rVars, lateVars>>
    \/ (\E handle \in 1..MaxChannels : ResumeTrack(handle)) /\ UNCHANGED <<dispatchVars, segVars, evVars, apVars, rVars, lateVars>>
    \/ (\E samples \in [DOMAIN mStreams -> Samples] : Tick(samples)) /\ UNCHANGED <<dispatchVars, segVars, evVars, apVars, rVars, lateVars>>

SpecMix == InitMix /\ [][NextMix]_vars

\* the mix law's value for a tick: the clamped sum of the playing channels'
\* samples, each scaled by its channel's volume
MixLaw(inputs) ==
    LET playing == SelectSeq(inputs, LAMBDA c : c.live)
        scaled == [k \in DOMAIN playing |->
                     TruncDiv(playing[k].sample * playing[k].volume[1], playing[k].volume[2])]
    IN Clamp(SumSeq(scaled))

\* C19: whatever the channels, their 16-bit samples and their volumes,
\* gains above 1 included, a tick does not fail and its output sample is
\* the sum of the channels' volume-scaled samples clamped to
\* [-32768, 32767].
C19_MixLaw ==
    \A k \in DOMAIN mOut :
        /\ ~mOut[k].failed
        /\ mOut[k].output = MixLaw(mOut[k].inputs)

\* C20: over playTrack, stopTrack and natural track ends the number of
\* channels never decreases, playTrack adds a channel only when none was
\* unallocated, and no two channels are allocated to one handle.
C20_ChannelAllocation ==
    /\ \A k \in DOMAIN mTrace :
          /\ Len(mTrace[k].after) >= Len(mTrace[k].before)
          /\ (mTrace[k].op = "playTrack" /\ Len(mTrace[k].after) > Len(mTrace[k].before))
                => \A j \in DOMAIN mTrace[k].before : mTrace[k].before[j] # <<>>
    /\ \A i, j \in DOMAIN mStreams :
          (i # j /\ mStreams[i].allocation # <<>>) => mStreams[i].allocation # mStreams[j].allocation

\* a playTrack added a channel, a stopTrack and a natural end freed
\* channels, and a later playTrack reused a free channel, two tracks being
\* allocated in the end
C20_Witness ==
    /\ \E k \in DOMAIN mTrace : mTrace[k].op = "playTrack" /\ Len(mTrace[k].after) > Len(mTrace[k].before)
    /\ \E k \in DOMAIN mTrace : mTrace[k].op = "stopTrack"
    /\ \E k \in DOMAIN mTrace : mTrace[k].op = "end"
    /\ \E k \in DOMAIN mTrace :
          /\ mTrace[k].op = "playTrack" /\ Len(mTrace[k].after) = Len(mTrace[k].before)
          /\ k > 1 /\ mTrace[k - 1].op # "playTrack"
    /\ Cardinality({i \in DOMAIN mStreams : mStreams[i].allocation # <<>>}) >= 2

\* the entries of the trace that concern a handle, as positions
EntriesOf(handle) == {k \in DOMAIN mTrace : mTrace[k].handle = handle}

\* C21: a stopTrack on a handle already stopped, or whose track has already
\* ended, has no effect: it calls no end listener and it changes no
\* channel's allocation, pause state or volume.
C21_StopTrackIdempotent ==
    \A k \in DOMAIN mTrace :
        (/\ mTrace[k].op = "stopTrack"
         /\ \E j \in 1..(k - 1) : mTrace[j].handle = mTrace[k].handle /\ mTrace[j].op \in {"stopTrack", "end"})
        => (mTrace[k].fired = 0 /\ ~mTrace[k].changed)

RECURSIVE FiredAt(_)
\* the number of end listener calls made by the entries at a set of positions
FiredAt(positions) ==
    IF positions = {} THEN 0
    ELSE LET k == CHOOSE k \in positions : TRUE
         IN mTrace[k].fired + FiredAt(positions \ {k})

\* the position the handle held in a list of allocations, 0 if none
ChannelOf(allocations, handle) ==
    IF \E c \in DOMAIN allocations : allocations[c] = <<handle>>
    THEN CHOOSE c \in DOMAIN allocations : allocations[c] = <<handle>>
    ELSE 0

\* the tracks stopped by exactly one stopTrack call, made while they played,
\* as the positions of these calls
StoppedOnce ==
    {k \in DOMAIN mTrace :
        /\ mTrace[k].op = "stopTrack"
        /\ ChannelOf(mTrace[k].before, mTrace[k].handle) # 0
        /\ \A j \in EntriesOf(mTrace[k].handle) : mTrace[j].op = "stopTrack" => j = k}

\* the first playTrack after a position, 0 if none
NextPlay(k) ==
    IF \E j \in (k + 1)..Len(mTrace) : mTrace[j].op = "playTrack"
    THEN CHOOSE j \in (k + 1)..Len(mTrace) :
            mTrace[j].op = "playTrack" /\ \A i \in (k + 1)..(j - 1) : mTrace[i].op # "playTrack"
    ELSE 0

\* what holds of a track stopped once, whether or not its source has ended
\* since: its listeners were called once in all, by the stopTrack and while
\* its channel still held it, and no channel holds it any more
StoppedOnceFreed(k) ==
    LET h == mTrace[k].handle IN
    /\ FiredAt(EntriesOf(h)) = listenersOf(mListeners, h)
    /\ mTrace[k].fired = listenersOf(mListeners, h)
    /\ mTrace[k].fired > 0 => ChannelOf(mTrace[k].seen[1], h) # 0
    /\ ChannelOf(mTrace[k].after, h) = 0
    /\ ChannelOf(Allocations(mStreams), h) = 0

\* C22 as stated: after one stopTrack(h) on a playing track, at any later
\* moment, the end listeners of h have been called exactly once and before
\* the channel was freed, the channel is unallocated, and the next playTrack
\* takes that same channel.
C22_StopThenReuseThatChannel ==
    \A k \in StoppedOnce :
        /\ StoppedOnceFreed(k)
        /\ NextPlay(k) # 0 =>
              ChannelOf(mTrace[NextPlay(k)].after, mTrace[NextPlay(k)].handle)
                  = ChannelOf(mTrace[k].before, mTrace[k].handle)

\* C22 amended: as above, but the next playTrack adds no channel: it takes
\* the first unallocated channel, which is the freed one unless an earlier
\* channel is unallocated too.
C22_StopThenReuseFreeChannel ==
    \A k \in StoppedOnce :
        /\ StoppedOnceFreed(k)
        /\ NextPlay(k) # 0 =>
              LET p == mTrace[NextPlay(k)]
                  c == ChannelOf(p.after, p.handle)
              IN /\ Len(p.after) = Len(p.before)
                 /\ p.before[c] = <<>>
                 /\ \A b \in 1..(c - 1) : p.before[b] # <<>>
                 /\ c <= ChannelOf(mTrace[k].before, mTrace[k].handle)

\* a track with a listener was stopped once, its source ended afterwards,
\* and the next playTrack took its channel
C22_Witness ==
    \E k \in StoppedOnce :
        /\ mTrace[k].fired = 1
        /\ mTrace[k].handle \in mEnded
        /\ NextPlay(k) # 0
        /\ ChannelOf(mTrace[NextPlay(k)].after, mTrace[NextPlay(k)].handle)
              = ChannelOf(mTrace[k].before, mTrace[k].handle)
        /\ Len(mTrace[k].before) > 1

\* C30: once changeTrack has given a track a new source, the end of the
\* replaced source changes nothing for the channel: every natural end that
\* pauses and frees a channel is the end of the source the channel plays.
C30_ReplacedSourceInert ==
    \A k \in DOMAIN mTrace :
        mTrace[k].op = "end" => mTrace[k].playing = << mTrace[k].handle >>

\* ------------------------------------------------------------------------
\* The natural end of one track (playTrack's 'data' and 'end' listeners and
\* the timer the 'end' listener sets).  Times are Date.now() milliseconds,
\* lengths are bytes; a wait is kept in bytes of playing time, that is in
\* 1/192 ms.  mEnd is [now, startTime, streamLength, chunks, ended, wait,
\* timer, allocated, freed]: ended and freed are optional times, wait the
\* optional msToWait computed at the end, timer the optional time it was set.
\* ------------------------------------------------------------------------
MaxTime == 4
MaxChunks == 3

\* 48 kHz, 2 bytes per sample, 2 channels: streamLength / 48 / 2 / 2 is in ms
BytesPerMs == 48 * 2 * 2

\* the lengths of the chunks a source delivers
ChunkLengths == {BytesPerMs \div 2, BytesPerMs, 2 * BytesPerMs}

\* a wait computed from half the playing time
msToWaitHalved(streamLength, now, startTime) == (streamLength \div 2) - BytesPerMs * (now - startTime)

\* msToWait = streamLength / 48 / 2 / 2 - (Date.now() - startTime), in 1/192 ms
msToWait(streamLength, now, startTime) == streamLength - BytesPerMs * (now - startTime)

\* if (unallocatedStream.allocation === handle) this.stopTrack(handle)
endStop(e) == IF e.allocated THEN [e EXCEPT !.allocated = FALSE, !.freed = << e.now >>] ELSE e

\* time passes
EndElapse ==
    /\ mEnd.now < MaxTime
    /\ mEnd' = [mEnd EXCEPT !.now = @ + 1]

\* stream.on('data', chunk => streamLength += chunk.length)
EndData(length) ==
    /\ mEnd.ended = <<>> /\ mEnd.chunks < MaxChunks
    /\ mEnd' = [mEnd EXCEPT !.streamLength = @ + length, !.chunks = @ + 1]

\* stream.once('end', ...)
EndOfStream ==
    /\ mEnd.ended = <<>>
    /\ LET wait == msToWait(mEnd.streamLength, mEnd.now, mEnd.startTime)
           e == [mEnd EXCEPT !.ended = << mEnd.now >>, !.wait = << wait >>]
       IN mEnd' = IF wait <= 0 THEN endStop(e) ELSE [e EXCEPT !.timer = << mEnd.now >>]

\* the setTimeout callback, no earlier than msToWait after it was set
EndTimer ==
    /\ mEnd.timer # <<>>
    /\ BytesPerMs * (mEnd.now - mEnd.timer[1]) >= mEnd.wait[1]
    /\ mEnd' = endStop([mEnd EXCEPT !.timer = <<>>])

\* stopTrack(handle) called while the track plays
EndStopTrack ==
    /\ mEnd.allocated
    /\ mEnd' = [mEnd EXCEPT !.allocated = FALSE]

\* playTrack has just returned: startTime = Date.now()
InitEnd ==
    /\ mEnd = [now |-> 0, startTime |-> 0, streamLength |-> 0, chunks |-> 0, ended |-> <<>>,
               wait |-> <<>>, timer |-> <<>>, allocated |-> TRUE, freed |-> <<>>]
    /\ mTick = <<>>
    /\ ffmpeg = <<>>
    /\ awaits = <<>>
    /\ DispatchIdle
    /\ SegIdle
    /\ EvIdle
    /\ ApIdle
    /\ RenderIdle
    /\ MixerIdle
    /\ Late2Idle

NextEnd ==
    \/ EndElapse /\ UNCHANGED <<dispatchVars, segVars, evVars, apVars, rVars, mVars, mTick, ffmpeg, awaits, late2Vars>>
    \/ (\E length \in ChunkLengths : EndData(length)) /\ UNCHANGED <<dispatchVars, segVars, evVars, apVars, rVars, mVars, mTick, ffmpeg, awaits, late2Vars>>
    \/ EndOfStream /\ UNCHANGED <<dispatchVars, segVars, evVars, apVars, rVars, mVars, mTick, ffmpeg, awaits, late2Vars>>
    \/ EndTimer /\ UNCHANGED <<dispatchVars, segVars, evVars, apVars, rVars, mVars, mTick, ffmpeg, awaits, late2Vars>>
    \/ EndStopTrack /\ UNCHANGED <<dispatchVars, segVars, evVars, apVars, rVars, mVars, mTick, ffmpeg, awaits, late2Vars>>

SpecEnd == InitEnd /\ [][NextEnd]_vars

\* C29: a track freed by its natural end is freed no earlier than its
\* playing time, bytes received / (48000 * 2 * 2) seconds, after playTrack,
\* also when the source ended earlier; when that time had already passed at
\* the end of the source, it is freed at once.
C29_EndNotBeforePlayed ==
    /\ mEnd.freed # <<>> => BytesPerMs * (mEnd.freed[1] - mEnd.startTime) >= mEnd.streamLength
    /\ ~(mEnd.ended # <<>> /\ mEnd.allocated /\ mEnd.timer = <<>>)
    /\ (mEnd.freed # <<>> /\ BytesPerMs * (mEnd.ended[1] - mEnd.startTime) >= mEnd.streamLength)
          => mEnd.freed = mEnd.ended

\* the source ended before its playing time had passed, and the track was
\* freed later, by the timer
C29_Witness ==
    /\ mEnd.freed # <<>>
    /\ mEnd.freed[1] > mEnd.ended[1]
    /\ mEnd.wait[1] > 0
    /\ mEnd.streamLength % BytesPerMs # 0

\* ------------------------------------------------------------------------
\* One mixer tick, step by step, in both variants of the mixer: 1 is
\* audio.ts (reads retried with a yield in between), 2 the later one (a
\* read that gives nothing is skipped).  mTick is [version, channels,
\* pc, todo, pushes]; a channel is [source, isStreamPaused, isReady,
\* reading, buffered]:
\*   source   "none" (stream === null), "data" (a frame can be read),
\*            "starved" (nothing to read for now) or "ended"
\*   reading  a _read of the MixerStream is under way
\*   buffered the MixerStream holds a frame the mixer can read
\* ------------------------------------------------------------------------
MaxTicks == 2

TickChannels == 2

Sources == {"none", "data", "starved"}

\* MixerStream sendBytes, one attempt: the channel afterwards.  In variant 1
\* an unpaused channel whose source gives nothing keeps retrying.
sendBytes(version, c, more) ==
    IF version = 2
    THEN IF c.source = "data" /\ ~c.isStreamPaused
         THEN [c EXCEPT !.reading = FALSE, !.buffered = TRUE, !.source = IF more THEN "data" ELSE "starved"]
         ELSE [c EXCEPT !.reading = FALSE]
    ELSE IF c.source = "none"
         THEN [c EXCEPT !.reading = FALSE, !.buffered = TRUE]
         ELSE IF c.source = "data"
              THEN [c EXCEPT !.reading = FALSE, !.buffered = TRUE, !.source = IF more THEN "data" ELSE "starved"]
              ELSE IF c.isStreamPaused
                   THEN [c EXCEPT !.reading = FALSE, !.buffered = TRUE]
                   ELSE c

\* the channels a tick of the mixer reads: in variant 1 those ready when it
\* starts
streamsToRead(version, channels) ==
    SelectSeq([k \in 1..Len(channels) |-> k], LAMBDA k : version = 2 \/ channels[k].isReady)

\* Mixer sendBytes at the channel it has come to: the tick afterwards.  A
\* read that finds no frame makes the MixerStream fetch one; variant 1 then
\* reads the same channel again, variant 2 goes on.
mixerReadStep(t) ==
    LET k == Head(t.todo) IN
    IF t.channels[k].buffered
    THEN [t EXCEPT !.channels[k].buffered = FALSE, !.todo = Tail(@)]
    ELSE IF t.version = 1
         THEN [t EXCEPT !.channels[k].reading = TRUE]
         ELSE [t EXCEPT !.channels[k].reading = TRUE, !.todo = Tail(@)]

\* Mixer._read: the consumer asks for the next buffer
MixerStart ==
    /\ mTick.pc # "reading" /\ mTick.pushes < MaxTicks
    /\ mTick' = [mTick EXCEPT !.pc = "reading", !.todo = streamsToRead(mTick.version, mTick.channels)]

\* the mixer reads the next channel, or reads again the one it waits for
MixerRead ==
    /\ mTick.pc = "reading" /\ mTick.todo # <<>>
    /\ mTick' = mixerReadStep(mTick)
    /\ mTick' # mTick

\* this.push(mergedResult)
MixerPush ==
    /\ mTick.pc = "reading" /\ mTick.todo = <<>>
    /\ mTick' = [mTick EXCEPT !.pc = "pushed", !.pushes = @ + 1]

\* a MixerStream's read attempt
StreamSend(k, more) ==
    /\ k \in DOMAIN mTick.channels /\ mTick.channels[k].reading
    /\ mTick' = [mTick EXCEPT !.channels[k] = sendBytes(mTick.version, mTick.channels[k], more)]
    /\ mTick' # mTick

\* the source of a channel delivers data: the first chunk makes it ready
SourceData(k) ==
    /\ k \in DOMAIN mTick.channels /\ mTick.channels[k].source = "starved"
    /\ mTick' = [mTick EXCEPT !.channels[k].source = "data", !.channels[k].isReady = TRUE]

\* the source of a channel ends; in variant 1 its 'end' listener stops the
\* track at once
SourceEnd(k) ==
    /\ k \in DOMAIN mTick.channels /\ mTick.channels[k].source \in {"data", "starved"}
    /\ mTick' = [mTick EXCEPT !.channels[k].source = "ended",
                              !.channels[k].isStreamPaused = IF mTick.version = 1 THEN TRUE ELSE @]

\* pauseTrack, stopTrack / resumeTrack on the channel's track, while it has
\* its channel (in variant 2 an ended track keeps it until the delayed stop)
SetStreamPaused(k, paused) ==
    /\ k \in DOMAIN mTick.channels
    /\ \/ mTick.channels[k].source \in {"data", "starved"}
       \/ mTick.version = 2 /\ mTick.channels[k].source = "ended" /\ paused
    /\ mTick.channels[k].isStreamPaused # paused
    /\ mTick' = [mTick EXCEPT !.channels[k].isStreamPaused = paused]

InitTick ==
    /\ \E version \in {1, 2} :
       \E sources \in [1..TickChannels -> Sources] :
       \E ready \in [1..TickChannels -> BOOLEAN] :
          /\ \A k \in 1..TickChannels : (ready[k] => sources[k] # "none") /\ (sources[k] = "data" => ready[k])
          /\ mTick = [version |-> version,
                      channels |-> [k \in 1..TickChannels |->
                                      [source |-> sources[k], isStreamPaused |-> FALSE, isReady |-> ready[k],
                                       reading |-> FALSE, buffered |-> FALSE]],
                      pc |-> "idle", todo |-> <<>>, pushes |-> 0]
    /\ mEnd = <<>>
    /\ ffmpeg = <<>>
    /\ awaits = <<>>
    /\ DispatchIdle
    /\ SegIdle
    /\ EvIdle
    /\ ApIdle
    /\ RenderIdle
    /\ MixerIdle
    /\ Late2Idle

TickSteps ==
    \/ MixerStart
    \/ MixerRead
    \/ MixerPush
    \/ \E k \in 1..TickChannels, more \in BOOLEAN : StreamSend(k, more)

NextTick ==
    \/ MixerStart /\ UNCHANGED <<dispatchVars, segVars, evVars, apVars, rVars, mVars, mEnd, ffmpeg, awaits, late2Vars>>
    \/ MixerRead /\ UNCHANGED <<dispatchVars, segVars, evVars, apVars, rVars, mVars, mEnd, ffmpeg, awaits, late2Vars>>
    \/ MixerPush /\ UNCHANGED <<dispatchVars, segVars, evVars, apVars, rVars, mVars, mEnd, ffmpeg, awaits, late2Vars>>
    \/ (\E k \in 1..TickChannels, more \in BOOLEAN : StreamSend(k, more)) /\ UNCHANGED <<dispatchVars, segVars, evVars, apVars, rVars, mVars, mEnd, ffmpeg, awaits, late2Vars>>
    \/ (\E k \in 1..TickChannels : SourceData(k)) /\ UNCHANGED <<dispatchVars, segVars, evVars, apVars, rVars, mVars, mEnd, ffmpeg, awaits, late2Vars>>
    \/ (\E k \in 1..TickChannels : SourceEnd(k)) /\ UNCHANGED <<dispatchVars, segVars, evVars, apVars, rVars, mVars, mEnd, ffmpeg, awaits, late2Vars>>
    \/ (\E k \in 1..TickChannels, paused \in BOOLEAN : SetStreamPaused(k, paused)) /\ UNCHANGED <<dispatchVars, segVars, evVars, apVars, rVars, mVars, mEnd, ffmpeg, awaits, late2Vars>>

\* The event loop runs every timer and setImmediate callback that is due:
\* the read steps of the mixer and of its channels are taken when they can
\* be, and a channel's retry sees a pause that is there whenever it looks.
\* Nothing makes a source deliver, or a caller pause a track.
SpecTick ==
    /\ InitTick /\ [][NextTick]_vars
    /\ WF_vars(MixerRead /\ UNCHANGED <<dispatchVars, segVars, evVars, apVars, rVars, mVars, mEnd, ffmpeg, awaits, late2Vars>>)
    /\ WF_vars(MixerPush /\ UNCHANGED <<dispatchVars, segVars, evVars, apVars, rVars, mVars, mEnd, ffmpeg, awaits, late2Vars>>)
    /\ \A k \in 1..TickChannels :
          SF_vars((\E more \in BOOLEAN : StreamSend(k, more)) /\ UNCHANGED <<dispatchVars, segVars, evVars, apVars, rVars, mVars, mEnd, ffmpeg, awaits, late2Vars>>)

\* C23: a tick the mixer has begun ends with a buffer pushed, whatever the
\* channels' sources have to give.
C23_TickNeverStalls ==
    (mTick.pc = "reading") ~> (mTick.pc = "pushed")

\* ------------------------------------------------------------------------
\* streamResource and the process-wide count of transcoders.  ffmpeg is
\* [totalFfmpegInstances, running, last]: running counts the transcoders
\* started and not yet finished, last tells what the last step was and how
\* many were running before it.
\* ------------------------------------------------------------------------
MaxStreamCalls == 23

MaxFfmpeg == 20

streamResourceLax(f) ==
    LET total == f.totalFfmpegInstances + 1 IN
    IF total > MaxFfmpeg + 1
    THEN [f EXCEPT !.totalFfmpegInstances = total,
                   !.last = [op |-> "streamResource", thrown |-> TRUE, before |-> f.running]]
    ELSE [f EXCEPT !.totalFfmpegInstances = total, !.running = @ + 1,
                   !.last = [op |-> "streamResource", thrown |-> FALSE, before |-> f.running]]

\* streamResource: the counter is raised first and stays raised when the
\* call throws; otherwise a transcoder is started
streamResource(f) ==
    LET total == f.totalFfmpegInstances + 1 IN
    IF total > MaxFfmpeg
    THEN [f EXCEPT !.totalFfmpegInstances = total,
                   !.last = [op |-> "streamResource", thrown |-> TRUE, before |-> f.running]]
    ELSE [f EXCEPT !.totalFfmpegInstances = total, !.running = @ + 1,
                   !.last = [op |-> "streamResource", thrown |-> FALSE, before |-> f.running]]

\* ffmpeg.once('finish', ...): a running transcoder is done
ffmpegFinish(f) ==
    [f EXCEPT !.totalFfmpegInstances = @ - 1, !.running = @ - 1,
              !.last = [op |-> "finish", thrown |-> FALSE, before |-> f.running]]

StreamResource ==
    /\ ffmpeg.totalFfmpegInstances < MaxStreamCalls
    /\ ffmpeg' = streamResource(ffmpeg)

FfmpegFinish ==
    /\ ffmpeg.running > 0
    /\ ffmpeg' = ffmpegFinish(ffmpeg)

InitFfmpeg ==
    /\ ffmpeg = [totalFfmpegInstances |-> 0, running |-> 0,
                 last |-> [op |-> "none", thrown |-> FALSE, before |-> 0]]
    /\ mEnd = <<>>
    /\ mTick = <<>>
    /\ awaits = <<>>
    /\ DispatchIdle
    /\ SegIdle
    /\ EvIdle
    /\ ApIdle
    /\ RenderIdle
    /\ MixerIdle
    /\ Late2Idle

NextFfmpeg ==
    \/ StreamResource /\ UNCHANGED <<dispatchVars, segVars, evVars, apVars, rVars, mVars, mEnd, mTick, awaits, late2Vars>>
    \/ FfmpegFinish /\ UNCHANGED <<dispatchVars, segVars, evVars, apVars, rVars, mVars, mEnd, mTick, awaits, late2Vars>>

SpecFfmpeg == InitFfmpeg /\ [][NextFfmpeg]_vars

MaxSessions == 2

MaxStarts == 3

DepValues == {1, 2}

DepsKinds == {"undefined", "empty", "list"}

\* the effect with deps: it runs on the first commit and when deps changed
effectRuns(kind, a) ==
    \/ ~a.mounted
    \/ kind = "undefined"
    \/ kind = "list" /\ a.effDeps # a.dep

\* the two effects of a commit, the first resets indices, the second drops
\* the cached promise of the index this render had
commitEffects(kind, a, index) ==
    LET isFirstRender == IF a.mounted THEN a.isFirstRender ELSE TRUE
        runs == effectRuns(kind, a)
        drops == runs /\ (kind = "undefined" \/ kind = "list" \/ ~isFirstRender)
    IN [a EXCEPT !.indices = 0,
                 !.promiseCache = IF drops /\ index = 0 THEN "none" ELSE @,
                 !.isFirstRender = IF runs THEN FALSE ELSE isFirstRender,
                 !.effDeps = IF runs THEN a.dep ELSE @,
                 !.mounted = TRUE]

\* one render of the component: with the promise cached and resolved it
\* completes and commits, without a cached promise it starts func and suspends
useAwait(kind, a) ==
    LET index == a.indices IN
    IF index = 0 /\ a.promiseCache # "none"
    THEN IF a.promiseCache = "resolved"
         THEN commitEffects(kind, [a EXCEPT !.indices = index + 1], index)
         ELSE a
    ELSE [a EXCEPT !.promiseCache = IF index = 0 THEN "pending" ELSE @,
                   !.indices = 0,
                   !.starts = @ + 1]

\* the component renders: first render, retry after the promise resolved,
\* or a re-render
AwaitRender(s) ==
    /\ s \in DOMAIN awaits.sessions
    /\ awaits.sessions[s].starts < MaxStarts
    /\ awaits' = [awaits EXCEPT !.sessions[s] = useAwait(awaits.kind, @)]
    /\ awaits' # awaits

\* the promise func returned resolves
AwaitResolve(s) ==
    /\ s \in DOMAIN awaits.sessions
    /\ awaits.sessions[s].promiseCache = "pending"
    /\ awaits' = [awaits EXCEPT !.sessions[s].promiseCache = "resolved"]

\* a dependency of the mounted component changes
AwaitChangeDep(s, v) ==
    /\ s \in DOMAIN awaits.sessions
    /\ awaits.sessions[s].mounted /\ awaits.sessions[s].dep # v
    /\ awaits' = [awaits EXCEPT !.sessions[s].dep = v, !.sessions[s].starts = 0]

InitAwait ==
    /\ \E kind \in DepsKinds :
          awaits = [kind |-> kind,
                    sessions |-> [s \in 1..MaxSessions |->
                                    [promiseCache |-> "none", indices |-> 0, mounted |-> FALSE,
                                     isFirstRender |-> TRUE, dep |-> 1, effDeps |-> 1, starts |-> 0]]]
    /\ mEnd = <<>>
    /\ mTick = <<>>
    /\ ffmpeg = <<>>
    /\ DispatchIdle
    /\ SegIdle
    /\ EvIdle
    /\ ApIdle
    /\ RenderIdle
    /\ MixerIdle
    /\ Late2Idle

NextAwait ==
    \/ (\E s \in 1..MaxSessions : AwaitRender(s)) /\ UNCHANGED <<dispatchVars, segVars, evVars, apVars, rVars, mVars, mEnd, mTick, ffmpeg, late2Vars>>
    \/ (\E s \in 1..MaxSessions : AwaitResolve(s)) /\ UNCHANGED <<dispatchVars, segVars, evVars, apVars, rVars, mVars, mEnd, mTick, ffmpeg, late2Vars>>
    \/ (\E s \in 1..MaxSessions, v \in DepValues : AwaitChangeDep(s, v)) /\ UNCHANGED <<dispatchVars, segVars, evVars, apVars, rVars, mVars, mEnd, mTick, ffmpeg, late2Vars>>

SpecAwait == InitAwait /\ [][NextAwait]_vars

\* C25: with a dependency list, func is started at most once in a session
\* for as long as the dependencies keep their values.
C25_StartedOncePerDeps ==
    awaits.kind # "undefined" =>
        \A s \in DOMAIN awaits.sessions : awaits.sessions[s].starts <= 1

\* C26: setupRoot's promise is resolved only by a task that ran to its end:
\* none of the task's outbound calls is pending when it calls resolve(), a
\* task that was rejected never calls it, and the task's hydrateMessages
\* runs with the promise already resolved.
C26_ResolveAfterAllCalls ==
    \A k \in 1..Len(setup) :
        /\ hist[setup[k].task].status = "done"
        /\ setup[k].pending = 0
        /\ setup[k].ev = "hydrate" => setup[k].resolved

\* a task that made two outbound calls resolved the promise and hydrated,
\* after a task that was rejected
C26_Witness ==
    \E k \in 1..Len(setup) :
        /\ setup[k].ev = "hydrate"
        /\ Cardinality(CallsOf(setup[k].task)) >= 2
        /\ \E id \in 1..Len(hist) : id < setup[k].task /\ hist[id].status = "rejected"

\* ------------------------------------------------------------------------
\* Whitelist wrappers inside Whitelist wrappers: the hydration specification
\* over trees that nest them.
\* ------------------------------------------------------------------------
WhitelistInner == Node("Whitelist", <<"u2">>, << ButtonF >>, FALSE)
WhitelistNested == Node("Whitelist", <<"u1">>, << WhitelistInner >>, FALSE)
WhitelistBoth == Node("Whitelist", <<"u1", "u2">>, << Node("Whitelist", <<"u1">>, << ButtonH >>, FALSE) >>, FALSE)

NestedTrees ==
    { << WhitelistNested >>,
      << WhitelistBoth, TextA >> }

NextNested ==
    \/ \E tree \in NestedTrees : nextTask < MaxHydCommits /\ Commit(tree)
    \/ \E k \in 1..maxPendingPromises, ok \in BOOLEAN : Settle(k, ok)
    \/ \E m \in 1..MaxHydCommits, c \in [type : InteractiveTypes, customId : {"id1", "id2", "id3"}], user \in Users :
          Collect(m, c, user)
    \/ \E h \in 1..MaxEvents : CallbackDone(h)
    \/ \E h \in 1..MaxEvents, ok \in BOOLEAN : AckSettle(h, ok)

SpecNested == InitHydrate /\ [][NextNested]_vars

\* n is the component id or holds it, at any depth
RECURSIVE Holds(_, _)
Holds(n, id) ==
    \/ n.kind \in InteractiveTypes /\ n.data[1] = id
    \/ \E k \in 1..Len(Subnodes(n)) : Holds(Subnodes(n)[k], id)

\* the user lists of all the Whitelist wrappers around component id
RECURSIVE EnclosingOf(_, _)
EnclosingOf(nodes, id) ==
    UNION { (IF nodes[j].kind = "Whitelist" /\ Holds(nodes[j], id)
             THEN { Range(nodes[j].data) } ELSE {})
            \cup EnclosingOf(Subnodes(nodes[j]), id) : j \in 1..Len(nodes) }

\* C27: an event on a component runs its callback only if the user is in
\* the list of every Whitelist wrapper around the component.
C27_EveryWhitelistApplies ==
    \A h \in 1..Len(handlers) :
        (\E w \in EnclosingOf(handlers[h].children, handlers[h].customId) : handlers[h].user \notin w)
            => handlers[h].steps = <<>>

\* ------------------------------------------------------------------------
\* Hidden nodes: hideInstance and unhideInstance set the flag of a child of
\* the container or of a node inside a wrapper, and createMessageOptions is
\* called on the container.  segResults keeps the last call's pages with
\* the children it was called on.
\* ------------------------------------------------------------------------
MaxHiddenChildren == 2

ContainerT == Node("Container", <<>>, << TextB >>, FALSE)

HiddenNodes(v) ==
    { TextA, ButtonF, WhitelistF, EphemeralB } \cup (IF v = 2 THEN { ContainerT } ELSE {})

\* hideInstance / unhideInstance on child j of the container, or on the
\* node it wraps
hideInstance(ch, j, nested, hidden) ==
    IF nested THEN [ch EXCEPT ![j].children[1].isHidden = hidden]
    ELSE [ch EXCEPT ![j].isHidden = hidden]

HideInstance(j, nested, hidden) ==
    /\ j \in 1..Len(segChildren)
    /\ nested => segChildren[j].kind \in {"Whitelist", "Ephemeral", "Container"}
    /\ segChildren' = hideInstance(segChildren, j, nested, hidden)
    /\ segChildren' # segChildren
    /\ UNCHANGED <<segVersion, segAttachments, segAttachments0, seg, segTrace, segResults>>

CreateOptions ==
    /\ LET r == createMessageOptions(segVersion, segChildren, segAttachments) IN
       segResults' = << [pages |-> r.pages, threw |-> r.threw, children |-> segChildren] >>
    /\ UNCHANGED <<segVersion, segChildren, segAttachments, segAttachments0, seg, segTrace>>

InitHidden ==
    /\ segVersion \in {1, 2}
    /\ segChildren \in SeqsUpTo(HiddenNodes(segVersion), MaxHiddenChildren)
    /\ segAttachments = <<>>
    /\ segAttachments0 = <<>>
    /\ seg = SegInit
    /\ segTrace = <<>>
    /\ segResults = <<>>
    /\ DispatchIdle
    /\ OthersIdle

NextHidden ==
    \/ (\E j \in 1..MaxHiddenChildren, nested \in BOOLEAN, hidden \in BOOLEAN : HideInstance(j, nested, hidden))
          /\ UNCHANGED <<dispatchVars, evVars, apVars, rVars, mVars, lateVars>>
    \/ CreateOptions /\ UNCHANGED <<dispatchVars, evVars, apVars, rVars, mVars, lateVars>>

SpecHidden == InitHidden /\ [][NextHidden]_vars

\* the nodes without those hidden, at every depth
RECURSIVE Shown(_)
Shown(nodes) ==
    IF nodes = <<>> THEN <<>>
    ELSE LET n == Head(nodes) IN
         (IF n.isHidden THEN <<>> ELSE << [n EXCEPT !.children = Shown(n.children)] >>)
         \o Shown(Tail(nodes))

\* C28: the pages are those of the tree without its hidden nodes, at the
\* top level and inside wrappers; a node that is shown again contributes as
\* if it had never been hidden.
C28_HiddenContributesNothing ==
    \A k \in 1..Len(segResults) :
        LET r == segResults[k]
            shown == createMessageOptions(segVersion, Shown(r.children), segAttachments)
        IN r.threw = shown.threw /\ r.pages = shown.pages

\* ------------------------------------------------------------------------
\* The container under the mutations of a commit.  cont is [container,
\* target, ops, last]: the description the commit renders (keyed nodes, in
\* order), the host calls the reconciler has still to make for it, and the
\* call made last.  The reconciler removes the nodes the description no
\* longer has, then places, in the description's order, every node that is
\* new or has to move: before the next node that stays, or at the end.
\* ------------------------------------------------------------------------
MaxNodes == 3

MaxPasses == 2

Descriptions == { q \in SeqsUpTo(1..MaxNodes, MaxNodes) : \A a, b \in 1..Len(q) : q[a] = q[b] => a = b }

IndexIn(q, x) == IF \E k \in 1..Len(q) : q[k] = x THEN CHOOSE k \in 1..Len(q) : q[k] = x ELSE 0

\* lastPlacedIndex after the first n nodes of the new description
RECURSIVE LastPlaced(_, _, _)
LastPlaced(old, new, n) ==
    IF n = 0 THEN 0
    ELSE LET before == LastPlaced(old, new, n - 1)
             oldIndex == IndexIn(old, new[n])
         IN IF oldIndex >= before THEN oldIndex ELSE before

\* the nodes of the new description the reconciler places
Placed(old, new) ==
    { new[n] : n \in { n \in 1..Len(new) :
                        IndexIn(old, new[n]) = 0 \/ IndexIn(old, new[n]) < LastPlaced(old, new, n - 1) } }

\* the host calls of the commit that takes description old to new
HostCalls(old, new) ==
    LET removed == SelectSeq(old, LAMBDA x : IndexIn(new, x) = 0)
        placed == Placed(old, new)
        stays(n) == { m \in (n + 1)..Len(new) : new[m] \notin placed }
        call(n) == IF stays(n) = {} THEN [op |-> "appendChildToContainer", child |-> new[n], beforeChild |-> 0]
                   ELSE [op |-> "insertInContainerBefore", child |-> new[n],
                         beforeChild |-> new[CHOOSE m \in stays(n) : \A o \in stays(n) : m <= o]]
        places == SelectSeq([n \in 1..Len(new) |-> n], LAMBDA n : new[n] \in placed)
    IN [k \in 1..Len(removed) |-> [op |-> "removeChildFromContainer", child |-> removed[k], beforeChild |-> 0]]
       \o [k \in 1..Len(places) |-> call(places[k])]

\* insertInContainerBefore: splice(findIndex(c => c === beforeChild), 0, child);
\* an index of -1 counts from the end
insertInContainerBefore(container, child, beforeChild) ==
    LET ch == container.children
        found == IndexIn(ch, beforeChild)
        at == IF found # 0 THEN found ELSE IF Len(ch) = 0 THEN 1 ELSE Len(ch)
    IN [container EXCEPT !.children = SubSeq(ch, 1, at - 1) \o << child >> \o SubSeq(ch, at, Len(ch))]

\* a render pass ends with a new description
Describe(new) ==
    /\ cont.ops = <<>> /\ cont.passes < MaxPasses
    /\ new # cont.target
    /\ cont' = [cont EXCEPT !.target = new, !.ops = HostCalls(cont.target, new),
                            !.passes = @ + 1, !.last = <<>>]

ContAppend ==
    /\ cont.ops # <<>> /\ Head(cont.ops).op = "appendChildToContainer"
    /\ cont' = [cont EXCEPT !.container = appendChildToContainer(@, Head(cont.ops).child),
                            !.ops = Tail(@), !.last = << Head(cont.ops) >>]

ContInsert ==
    /\ cont.ops # <<>> /\ Head(cont.ops).op = "insertInContainerBefore"
    /\ cont' = [cont EXCEPT !.container = insertInContainerBefore(@, Head(cont.ops).child, Head(cont.ops).beforeChild),
                            !.ops = Tail(@), !.last = << Head(cont.ops) >>]

ContRemove ==
    /\ cont.ops # <<>> /\ Head(cont.ops).op = "removeChildFromContainer"
    /\ cont' = [cont EXCEPT !.container = removeChildFromContainer(@, Head(cont.ops).child),
                            !.ops = Tail(@), !.last = << Head(cont.ops) >>]

InitContainer ==
    /\ cont = [container |-> [children |-> <<>>, onChange |-> <<>>], target |-> <<>>, ops |-> <<>>,
               passes |-> 0, last |-> <<>>]
    /\ sites = <<>>
    /\ loaders = <<>>
    /\ dstore = <<>>
    /\ mEnd = <<>>
    /\ mTick = <<>>
    /\ ffmpeg = <<>>
    /\ awaits = <<>>
    /\ DispatchIdle
    /\ SegIdle
    /\ EvIdle
    /\ ApIdle
    /\ RenderIdle
    /\ MixerIdle

NextContainer ==
    \/ (\E new \in Descriptions : Describe(new)) /\ UNCHANGED <<dispatchVars, segVars, evVars, apVars, rVars, mVars, mEnd, mTick, ffmpeg, awaits, sites, loaders, dstore>>
    \/ ContAppend /\ UNCHANGED <<dispatchVars, segVars, evVars, apVars, rVars, mVars, mEnd, mTick, ffmpeg, awaits, sites, loaders, dstore>>
    \/ ContInsert /\ UNCHANGED <<dispatchVars, segVars, evVars, apVars, rVars, mVars, mEnd, mTick, ffmpeg, awaits, sites, loaders, dstore>>
    \/ ContRemove /\ UNCHANGED <<dispatchVars, segVars, evVars, apVars, rVars, mVars, mEnd, mTick, ffmpeg, awaits, sites, loaders, dstore>>

SpecContainer == InitContainer /\ [][NextContainer]_vars

\* C31: container.children never holds a node twice, a node inserted is
\* right before its beforeChild, and when the commit's calls are made the
\* children are the description.
C31_ChildrenMirrorDescription ==
    LET ch == cont.container.children IN
    /\ \A a, b \in 1..Len(ch) : ch[a] = ch[b] => a = b
    /\ (cont.last # <<>> /\ cont.last[1].op = "insertInContainerBefore")
          => \E a \in 1..(Len(ch) - 1) : ch[a] = cont.last[1].child /\ ch[a + 1] = cont.last[1].beforeChild
    /\ cont.ops = <<>> => ch = cont.target

\* ------------------------------------------------------------------------
\* Pausing and stopping tracks of a mixer of either variant (mTick holds
\* the variant only: 1 is audio.ts, 2 the later one), with ticks in which
\* every source may or may not have data to read.
\* ------------------------------------------------------------------------

\* MixerStream._read at one sample, of the given variant: consumed tells
\* whether the source was read from.  Variant 1 reads the source before it
\* looks at isStreamPaused.
streamReadOf(version, s, sample, avail) ==
    IF version = 2
    THEN IF avail THEN streamRead(s, sample) ELSE [live |-> FALSE, threw |-> FALSE, word |-> 0]
    ELSE IF s.stream = <<>> \/ ~avail
         THEN [live |-> FALSE, threw |-> FALSE, word |-> 0]
         ELSE LET w == writeInt16LE(sample * s.volume[1], s.volume[2])
              IN [live |-> TRUE, threw |-> w.threw, word |-> w.word]

\* one tick of the mixer of the variant at hand; in variant 1 the tick
\* completes only if every unpaused channel's source has data
TickOf(samples, avail) ==
    /\ mStreams # <<>>
    /\ mTick.version = 1 =>
          \A k \in DOMAIN mStreams : (mStreams[k].stream # <<>> /\ ~mStreams[k].isStreamPaused) => avail[k]
    /\ LET reads == [k \in DOMAIN mStreams |-> streamReadOf(mTick.version, mStreams[k], samples[k], avail[k])] IN
       /\ \A k \in DOMAIN mStreams : ~reads[k].live => samples[k] = 0
       /\ mOut' = << [inputs |-> [k \in DOMAIN mStreams |->
                                    [live |-> reads[k].live, sample |-> samples[k],
                                     volume |-> mStreams[k].volume,
                                     paused |-> mStreams[k].isStreamPaused,
                                     allocation |-> mStreams[k].allocation]],
                      failed |-> \E k \in DOMAIN reads : reads[k].threw,
                      output |-> mixerRead(reads)] >>
    /\ UNCHANGED <<mStreams, mHandles, mTrace, mListeners, mEnded>>

InitPause ==
    /\ \E n \in 1..MaxChannels : mStreams = Playing(n) /\ mHandles = n
    /\ mTrace = <<>>
    /\ mListeners = {}
    /\ mEnded = {}
    /\ mOut = <<>>
    /\ mTick \in { [version |-> 1], [version |-> 2] }
    /\ mEnd = <<>>
    /\ ffmpeg = <<>>
    /\ awaits = <<>>
    /\ Late2Idle
    /\ DispatchIdle
    /\ SegIdle
    /\ EvIdle
    /\ ApIdle
    /\ RenderIdle

NextPause ==
    \/ (\E handle \in 1..MaxChannels : PauseTrack(handle)) /\ UNCHANGED <<dispatchVars, segVars, evVars, apVars, rVars, lateVars>>
    \/ (\E handle \in 1..MaxChannels : ResumeTrack(handle)) /\ UNCHANGED <<dispatchVars, segVars, evVars, apVars, rVars, lateVars>>
    \/ (\E handle \in 1..MaxChannels : findStream(mStreams, <<handle>>) # 0 /\ StopTrack(handle)) /\ UNCHANGED <<dispatchVars, segVars, evVars, apVars, rVars, lateVars>>
    \/ (\E samples \in [DOMAIN mStreams -> Samples], avail \in [DOMAIN mStreams -> BOOLEAN] : TickOf(samples, avail))
          /\ UNCHANGED <<dispatchVars, segVars, evVars, apVars, rVars, lateVars>>

SpecPause == InitPause /\ [][NextPause]_vars

\* C32: a tick reads nothing from the source of a channel that is paused
\* (a stopped track's channel is), so none of its samples reach the output;
\* and a pause, resume or stop changes the channel of its track only.
C32_PausedSourceUntouched ==
    /\ [](\A t \in DOMAIN mOut : \A k \in DOMAIN mOut[t].inputs :
             mOut[t].inputs[k].paused => ~mOut[t].inputs[k].live)
    /\ [][\A i, j \in DOMAIN mStreams :
             (i # j /\ mStreams'[i] # mStreams[i]) => mStreams'[j] = mStreams[j]]_vars

\* C33: when the loop of createMessageOptions has placed every child, each
\* page a node of a stage kind was added to is a page the filter keeps, so
\* the node is in the list returned.
C33_NoContentLost ==
    (segVersion = 1 /\ SegDone(segChildren, seg) /\ ~seg.threw) =>
        \A k \in 1..Len(segTrace) :
            segTrace[k].placed \in StageKinds
                => ~isMessageOptionsEmptyV1(seg.result[segTrace[k].page])

\* ------------------------------------------------------------------------
\* The loop of createMessageOptions (stage variant) over children that
\* include a kind no stage holds, stepped until it returns or has made
\* MaxLoopPages pages.
\* ------------------------------------------------------------------------
MaxLoopChildren == 2

MaxLoopPages == 4

AnswerA == Leaf("Answer", <<"a">>)

LoopNodes == { TextA, EmbedE, ButtonF, EphemeralB, AnswerA }

InitLoop ==
    /\ segVersion = 1
    /\ segChildren \in SeqsUpTo(LoopNodes, MaxLoopChildren)
    /\ segAttachments = <<>>
    /\ segAttachments0 = <<>>
    /\ seg = SegInit
    /\ segTrace = << TraceEntry(SegInit, "") >>
    /\ segResults = <<>>
    /\ DispatchIdle
    /\ OthersIdle

NextLoop ==
    \/ Len(seg.result) <= MaxLoopPages /\ SegLoopStep
    \/ SegReturn

SpecLoop == InitLoop /\ [][NextLoop]_vars

\* C34: the loop makes at most one page per child and at most one step per
\* child and stage, so it ends.
C34_LoopBounded ==
    /\ Len(seg.result) <= 1 + Len(segChildren)
    /\ Len(segTrace) <= 1 + (Len(MESSAGE_PARTS) + 1) * Len(segChildren)

\* the kinds of the visible leaves of the nodes in depth-first order, the
\* wrappers that are accepted at any cursor position opened up
RECURSIVE LeafKinds(_)
LeafKinds(nodes) ==
    IF nodes = <<>> THEN <<>>
    ELSE LET n == Head(nodes) IN
         (IF n.isHidden THEN <<>>
          ELSE IF n.kind \in {"Whitelist", "Ephemeral"} THEN LeafKinds(n.children)
          ELSE << n.kind >>)
         \o LeafKinds(Tail(nodes))

\* the leaves the first k steps of the loop have added, each with its page
RECURSIVE PlacedLeaves(_)
PlacedLeaves(k) ==
    IF k = 0 THEN <<>>
    ELSE LET e == segTrace[k]
             kinds == IF e.placed = "" THEN <<>> ELSE LeafKinds(<< segChildren[e.pos - 1] >>)
         IN PlacedLeaves(k - 1) \o [j \in 1..Len(kinds) |-> [page |-> e.page, kind |-> kinds[j]]]

\* C35: of two leaves of stage kinds added to the same page, nested in a
\* Whitelist or Ephemeral wrapper or not, the earlier one is not of a
\* higher stage.
C35_NestedStageOrder ==
    segVersion = 1 =>
        LET leaves == PlacedLeaves(Len(segTrace)) IN
        \A a, b \in 1..Len(leaves) :
            (/\ a < b
             /\ leaves[a].kind \in StageKinds /\ leaves[b].kind \in StageKinds
             /\ leaves[a].page = leaves[b].page)
            => StageIndex(leaves[a].kind) <= StageIndex(leaves[b].kind)

\* C36: the transcode counter equals the number of transcoders running,
\* and a streamResource call made while fewer than 20 run does not throw.
C36_CounterIsRunning ==
    /\ ffmpeg.totalFfmpegInstances = ffmpeg.running
    /\ (ffmpeg.last.op = "streamResource" /\ ffmpeg.last.before < MaxFfmpeg)
          => ~ffmpeg.last.thrown

\* ------------------------------------------------------------------------
\* useAwait with two call sites in one session.  sites is
\*   kind          the deps argument of both calls, as in DepsKinds
\*   layout        "one": both calls in one component; "two": each call in
\*                 a component of its own, which may re-render alone
\*   promiseCache  promiseCache[id]: index -> [owner, resolved], owner the
\*                 call site whose func returned the promise
\*   indices       indices[id]
\*   mounted       the call sites whose component has committed
\*   firstDone     the call sites whose isFirstRender ref is false
\*   got           per call site, the owner of the promise whose result the
\*                 call last returned (0: it has not returned yet)
\*   starts        how many funcs were started
\* ------------------------------------------------------------------------
MaxSiteStarts == 4

SiteIds == {1, 2}

\* the render passes: the call sites reached, in hook order
PassesOf(layout) ==
    IF layout = "one" THEN { <<1, 2>> } ELSE { <<1, 2>>, <<1>>, <<2>> }

\* one useAwait call during a pass r = [st, suspended, index]; index keeps
\* the value of `index` each call of the pass closed over
useAwaitSite(r, site) ==
    IF r.suspended THEN r
    ELSE LET st == r.st
             index == st.indices
             seen == [r EXCEPT !.index[site] = index]
         IN IF index \in DOMAIN st.promiseCache
            THEN IF st.promiseCache[index].resolved
                 THEN [seen EXCEPT !.st.indices = index + 1,
                                   !.st.got[site] = st.promiseCache[index].owner]
                 ELSE [seen EXCEPT !.suspended = TRUE]
            ELSE [seen EXCEPT !.st.promiseCache =
                                  [j \in DOMAIN st.promiseCache \cup {index} |->
                                      IF j = index THEN [owner |-> site, resolved |-> FALSE]
                                      ELSE st.promiseCache[j]],
                              !.st.indices = 0,
                              !.st.starts = @ + 1,
                              !.suspended = TRUE]

\* the two effects of one call site at a commit
siteEffects(st, site, index) ==
    LET isFirstRender == site \notin st.firstDone
        runs == site \notin st.mounted \/ st.kind = "undefined"
        drops == runs /\ (st.kind = "undefined" \/ st.kind = "list" \/ ~isFirstRender)
    IN [st EXCEPT !.indices = 0,
                  !.promiseCache = IF drops
                                   THEN [j \in DOMAIN @ \ {index} |-> @[j]]
                                   ELSE @,
                  !.firstDone = IF runs THEN @ \cup {site} ELSE @,
                  !.mounted = @ \cup {site}]

\* a render pass over the call sites of pass; it commits when no call
\* suspended
renderPass(st, pass) ==
    LET r0 == [st |-> st, suspended |-> FALSE, index |-> [s \in SiteIds |-> 0]]
        r1 == useAwaitSite(r0, pass[1])
        r2 == IF Len(pass) > 1 THEN useAwaitSite(r1, pass[2]) ELSE r1
        e1 == siteEffects(r2.st, pass[1], r2.index[pass[1]])
        e2 == IF Len(pass) > 1 THEN siteEffects(e1, pass[2], r2.index[pass[2]]) ELSE e1
    IN IF r2.suspended THEN r2.st ELSE e2

\* a full render, a retry, or a re-render of one mounted component
SiteRender(pass) ==
    /\ sites.starts < MaxSiteStarts
    /\ pass \in PassesOf(sites.layout)
    /\ Len(pass) = 1 => pass[1] \in sites.mounted
    /\ sites' = renderPass(sites, pass)
    /\ sites' # sites

\* a promise a func returned resolves
SiteResolve(i) ==
    /\ i \in DOMAIN sites.promiseCache
    /\ ~sites.promiseCache[i].resolved
    /\ sites' = [sites EXCEPT !.promiseCache[i].resolved = TRUE]

InitSites ==
    /\ \E kind \in DepsKinds, layout \in {"one", "two"} :
          sites = [kind |-> kind, layout |-> layout, promiseCache |-> <<>>,
                   indices |-> 0, mounted |-> {}, firstDone |-> {},
                   got |-> [s \in SiteIds |-> 0], starts |-> 0]
    /\ cont = <<>>
    /\ loaders = <<>>
    /\ dstore = <<>>
    /\ mEnd = <<>>
    /\ mTick = <<>>
    /\ ffmpeg = <<>>
    /\ awaits = <<>>
    /\ DispatchIdle
    /\ SegIdle
    /\ EvIdle
    /\ ApIdle
    /\ RenderIdle
    /\ MixerIdle

NextSites ==
    \/ (\E pass \in PassesOf("two") : SiteRender(pass)) /\ UNCHANGED <<dispatchVars, segVars, evVars, apVars, rVars, mVars, mEnd, mTick, ffmpeg, awaits, cont, loaders, dstore>>
    \/ (\E i \in 0..MaxSiteStarts : SiteResolve(i)) /\ UNCHANGED <<dispatchVars, segVars, evVars, apVars, rVars, mVars, mEnd, mTick, ffmpeg, awaits, cont, loaders, dstore>>

SpecSites == InitSites /\ [][NextSites]_vars

\* C37: a useAwait call never returns the result of a promise that the
\* func of another call site returned.
C37_OwnPromiseOnly ==
    \A s \in SiteIds : sites.got[s] \in {0, s}

\* ------------------------------------------------------------------------
\* withLoader: the instances of one component made by withLoader share its
\* cacheId.  loaders is
\*   loaderResults  loaderResults[cacheId]: <<>> when absent, else
\*                  <<[owner, resolved]>>, owner the instance whose props
\*                  loader was called with
\*   inst           per instance: got, the owner of the promise whose result
\*                  it last rendered with (0: none yet), and waiting, the
\*                  owner of the promise its last render suspended on
\*   loads          how often loader was called
\* ------------------------------------------------------------------------
MaxInstances == 2

MaxLoads == 4

\* one render of instance i of the component withLoader returned
withLoader(l, i) ==
    IF l.loaderResults # <<>>
    THEN LET p == l.loaderResults[1] IN
         IF p.resolved
         THEN [l EXCEPT !.loaderResults = <<>>,
                        !.inst[i] = [got |-> p.owner, waiting |-> 0]]
         ELSE [l EXCEPT !.inst[i].waiting = p.owner]
    ELSE [l EXCEPT !.loaderResults = << [owner |-> i, resolved |-> FALSE] >>,
                   !.inst[i].waiting = i,
                   !.loads = @ + 1]

\* instance i renders: a first render, a retry or a re-render
LoaderRender(i) ==
    /\ loaders.loads < MaxLoads
    /\ loaders' = withLoader(loaders, i)
    /\ loaders' # loaders

\* the promise loader returned resolves
LoaderResolve ==
    /\ loaders.loaderResults # <<>>
    /\ ~loaders.loaderResults[1].resolved
    /\ loaders' = [loaders EXCEPT !.loaderResults[1].resolved = TRUE]

InitLoaders ==
    /\ loaders = [loaderResults |-> <<>>,
                  inst |-> [i \in 1..MaxInstances |-> [got |-> 0, waiting |-> 0]],
                  loads |-> 0]
    /\ cont = <<>>
    /\ sites = <<>>
    /\ dstore = <<>>
    /\ mEnd = <<>>
    /\ mTick = <<>>
    /\ ffmpeg = <<>>
    /\ awaits = <<>>
    /\ DispatchIdle
    /\ SegIdle
    /\ EvIdle
    /\ ApIdle
    /\ RenderIdle
    /\ MixerIdle

NextLoaders ==
    \/ (\E i \in 1..MaxInstances : LoaderRender(i)) /\ UNCHANGED <<dispatchVars, segVars, evVars, apVars, rVars, mVars, mEnd, mTick, ffmpeg, awaits, cont, sites, dstore>>
    \/ LoaderResolve /\ UNCHANGED <<dispatchVars, segVars, evVars, apVars, rVars, mVars, mEnd, mTick, ffmpeg, awaits, cont, sites, dstore>>

SpecLoaders == InitLoaders /\ [][NextLoaders]_vars

\* C38: an instance of a withLoader component renders only with the result
\* of loader called with its own props, and suspends only on that promise.
C38_OwnLoaderResult ==
    \A i \in DOMAIN loaders.inst :
        /\ loaders.inst[i].got \in {0, i}
        /\ loaders.inst[i].waiting \in {0, i}

\* ------------------------------------------------------------------------
\* DataStore.update / updateAndEmit on one key of a MemoryDataStore.
\* dstore is
\*   data    this.data[key], 0 while the key is absent
\*   calls   the update calls in the order they were started, each
\*           [transition, emit, pc, read, value, overlapped]: pc is "get"
\*           (awaiting this.get), "set" (awaiting this.set) or "done";
\*           overlapped tells that no call had finished when it started
\*   events  the 'change' events emitted, each [call, value]
\* ------------------------------------------------------------------------
MaxUpdates == 3

InitialValue == 1

Transitions == {"inc", "dbl"}

transition(t, prevData) == IF t = "inc" THEN prevData + 1 ELSE 2 * prevData

\* MemoryDataStore.get
storeGet(d) == IF d.data # 0 THEN d.data ELSE InitialValue

\* update is called: this.get(key, initialValue) reads the data, and the
\* call waits for the promise it returned
UpdateStart(t, emit) ==
    /\ Len(dstore.calls) < MaxUpdates
    /\ dstore' = [dstore EXCEPT !.calls = Append(@,
                     [transition |-> t, emit |-> emit, pc |-> "get",
                      read |-> storeGet(dstore), value |-> 0,
                      overlapped |-> \A k \in 1..Len(dstore.calls) : dstore.calls[k].pc # "done"])]

\* the call goes on after `await this.get`: it applies the transition to
\* what it read and this.set stores the result
UpdateSet(k) ==
    /\ k \in 1..Len(dstore.calls)
    /\ dstore.calls[k].pc = "get"
    /\ LET value == transition(dstore.calls[k].transition, dstore.calls[k].read) IN
       dstore' = [dstore EXCEPT !.data = value,
                                !.calls[k].value = value,
                                !.calls[k].pc = "set"]

\* the call goes on after `await this.set`: update returns the value, and
\* updateAndEmit emits the change event with it
UpdateReturn(k) ==
    /\ k \in 1..Len(dstore.calls)
    /\ dstore.calls[k].pc = "set"
    /\ dstore' = [dstore EXCEPT !.calls[k].pc = "done",
                                !.events = IF dstore.calls[k].emit
                                           THEN Append(@, [call |-> k, value |-> dstore.calls[k].value])
                                           ELSE @]

InitStore ==
    /\ dstore = [data |-> 0, calls |-> <<>>, events |-> <<>>]
    /\ cont = <<>>
    /\ sites = <<>>
    /\ loaders = <<>>
    /\ mEnd = <<>>
    /\ mTick = <<>>
    /\ ffmpeg = <<>>
    /\ awaits = <<>>
    /\ DispatchIdle
    /\ SegIdle
    /\ EvIdle
    /\ ApIdle
    /\ RenderIdle
    /\ MixerIdle

NextStore ==
    \/ (\E t \in Transitions, emit \in BOOLEAN : UpdateStart(t, emit)) /\ UNCHANGED <<dispatchVars, segVars, evVars, apVars, rVars, mVars, mEnd, mTick, ffmpeg, awaits, cont, sites, loaders>>
    \/ (\E k \in 1..MaxUpdates : UpdateSet(k)) /\ UNCHANGED <<dispatchVars, segVars, evVars, apVars, rVars, mVars, mEnd, mTick, ffmpeg, awaits, cont, sites, loaders>>
    \/ (\E k \in 1..MaxUpdates : UpdateReturn(k)) /\ UNCHANGED <<dispatchVars, segVars, evVars, apVars, rVars, mVars, mEnd, mTick, ffmpeg, awaits, cont, sites, loaders>>

SpecStore == InitStore /\ [][NextStore]_vars

\* the transitions of the first k calls applied one after another
RECURSIVE ApplyAll(_)
ApplyAll(k) ==
    IF k = 0 THEN InitialValue
    ELSE transition(dstore.calls[k].transition, ApplyAll(k - 1))

\* C39: when update calls that were all started before any of them
\* finished are done, the stored value is their transitions applied one
\* after another to the initial value, and every change event carries the
\* value its own update stored.
C39_NoLostUpdate ==
    /\ (/\ dstore.calls # <<>>
        /\ \A k \in 1..Len(dstore.calls) :
              dstore.calls[k].pc = "done" /\ dstore.calls[k].overlapped)
       => dstore.data = ApplyAll(Len(dstore.calls))
    /\ \A e \in 1..Len(dstore.events) :
          dstore.events[e].value = dstore.calls[dstore.events[e].call].value

\* ------------------------------------------------------------------------
\* appendChild followed by removeChild (removeChild of the instance
\* classes is defined with the host config above).
\* ------------------------------------------------------------------------
\* The reconciler removes the child it appended last.
RemoveChildCall ==
    /\ apLog # <<>>
    /\ Len(apLog) <= MaxAppends
    /\ LET a == Len(apLog) IN
       /\ "removed" \notin DOMAIN apLog[a]
       /\ ~apLog[a].threw
       /\ LET child == [id |-> a, kind |-> apLog[a].child]
              r == removeChild(apParent.kind, apParent.stored, child)
          IN /\ apParent' = [apParent EXCEPT !.stored = r.stored]
             /\ apLog' = Append(apLog, [parent |-> apParent.kind, child |-> child.kind,
                                        before |-> apParent.stored, after |-> r.stored,
                                        threw |-> r.threw, error |-> NoError, removed |-> a])
    /\ UNCHANGED <<dispatchVars, segVars, evVars, rVars, mVars, lateVars>>

NextRemove ==
    \/ \E childKind \in AllKinds : AppendChildCall(childKind)
    \/ RemoveChildCall

SpecRemove == InitAppend /\ [][NextRemove]_vars

\* C40: removeChild of the child an appendChild call just stored does not
\* throw and leaves the parent's data as it was before that appendChild.
C40_AppendRemoveRestores ==
    \A a \in 2..Len(apLog) :
        "removed" \in DOMAIN apLog[a] =>
            /\ ~apLog[a].threw
            /\ apLog[a].after = apLog[a - 1].before

====
